---- MODULE Spec2Model ----
(***************************************************************************)
(* Verification model of the VS Code theme generator's colour model        *)
(* (color_utils.py), contrast repair (ai_enhancer.py) and theme validator  *)
(* (validator.py).                                                         *)
(*                                                                         *)
(* Python str values are sequences of one-character strings.  The          *)
(* characters used are ASCII letters, digits, '#', '_', ' ', '!', '.',     *)
(* '@' and the line break.                                                 *)
(***************************************************************************)
EXTENDS Integers, Sequences, FiniteSets, TLC

VARIABLES
    color_in,      \* the str handed to a colour function
    color_call,    \* the last colour-function call and what it produced
    colors,        \* the colour map handed to contrast repair
    contrast_out,  \* what _check_and_fix_contrast returned for colors
    adjust_call,   \* the last direct _adjust_for_contrast call
    theme_def,     \* the caller's theme definition object (its current value)
    earlier_list,  \* the list the validate call before returned: then and now
    snapshot,      \* the value theme_def had when the last call started
    returned,      \* what the last validator call returned or raised
    errors,        \* ThemeValidator.errors
    calls,         \* number of validator calls made on this instance
    enhance,       \* an AIEnhancer.enhance_theme call: its inputs and position
    build          \* a ThemeBuilder.build call: its inputs and position

vars == <<color_in, color_call, colors, contrast_out, adjust_call,
          theme_def, earlier_list, snapshot, returned, errors, calls,
          enhance, build>>

colorVars == <<color_in, color_call>>
contrastVars == <<colors, contrast_out, adjust_call>>
validatorVars == <<theme_def, earlier_list, snapshot, returned, errors, calls>>
pipelineVars == <<enhance, build>>

(***************************************************************************)
(* Characters and str helpers                                              *)
(***************************************************************************)
LowerLetters == <<"a","b","c","d","e","f","g","h","i","j","k","l","m",
                  "n","o","p","q","r","s","t","u","v","w","x","y","z">>
UpperLetters == <<"A","B","C","D","E","F","G","H","I","J","K","L","M",
                  "N","O","P","Q","R","S","T","U","V","W","X","Y","Z">>
DigitChars == {"0","1","2","3","4","5","6","7","8","9"}
HexDigitChars == <<"0","1","2","3","4","5","6","7","8","9",
                   "a","b","c","d","e","f">>
Whitespace == {" ", "\n"}

Range(s) == {s[i] : i \in DOMAIN s}
LowerSet == Range(LowerLetters)
UpperSet == Range(UpperLetters)
IsLower(c) == c \in LowerSet
IsUpper(c) == c \in UpperSet
IsAlpha(c) == IsLower(c) \/ IsUpper(c)

\* str.upper() / str.lower() on one character
UpperOf ==
    [c \in LowerSet |->
        UpperLetters[CHOOSE i \in DOMAIN LowerLetters : LowerLetters[i] = c]]
LowerOf ==
    [c \in UpperSet |->
        LowerLetters[CHOOSE i \in DOMAIN UpperLetters : UpperLetters[i] = c]]
ToUpper(c) == IF IsLower(c) THEN UpperOf[c] ELSE c
ToLower(c) == IF IsUpper(c) THEN LowerOf[c] ELSE c
upper(s) == [i \in DOMAIN s |-> ToUpper(s[i])]

\* the character class [0-9A-Fa-f] and the value of a digit in base 16
HexDigitSet == Range(HexDigitChars) \cup {"A", "B", "C", "D", "E", "F"}
HexValueOf ==
    [c \in HexDigitSet |->
        (CHOOSE i \in DOMAIN HexDigitChars : HexDigitChars[i] = ToLower(c)) - 1]
IsHexDigit(c) == c \in HexDigitSet
HexValue(c) == HexValueOf[c]

MinOf(a, b) == IF a <= b THEN a ELSE b
MaxOf(a, b) == IF a >= b THEN a ELSE b

\* Python s[i:j] for 0 <= i <= j
Slice(s, i, j) == SubSeq(s, i + 1, MinOf(j, Len(s)))

\* str.lstrip(ch)
RECURSIVE lstrip(_, _)
lstrip(s, ch) ==
    IF s # <<>> /\ Head(s) = ch THEN lstrip(Tail(s), ch) ELSE s

\* str.strip() of whitespace, as int() applies it to its argument
RECURSIVE StripLeft(_)
StripLeft(s) ==
    IF s # <<>> /\ Head(s) \in Whitespace THEN StripLeft(Tail(s)) ELSE s
RECURSIVE StripRight(_)
StripRight(s) ==
    IF s # <<>> /\ s[Len(s)] \in Whitespace
    THEN StripRight(SubSeq(s, 1, Len(s) - 1))
    ELSE s

\* re: the position p (characters consumed) satisfies '$': the end of the
\* string, or just before a line break that ends the string
AtDollar(s, p) ==
    \/ p = Len(s)
    \/ p = Len(s) - 1 /\ s[Len(s)] = "\n"

(***************************************************************************)
(* Colour model: color_utils.py                                            *)
(***************************************************************************)
\* re.match(r'^#[0-9A-Fa-f]{n}$', color)
MatchHexN(color, n) ==
    /\ Len(color) >= n + 1
    /\ color[1] = "#"
    /\ \A i \in 2..(n + 1) : IsHexDigit(color[i])
    /\ AtDollar(color, n + 1)

validate_hex_color(color) == MatchHexN(color, 6) \/ MatchHexN(color, 8)

\* int(t, 16): the value, or ValueError
IntBase16(t) ==
    LET RECURSIVE Val(_)
        Val(w) == IF w = <<>> THEN 0
                  ELSE 16 * Val(SubSeq(w, 1, Len(w) - 1)) + HexValue(w[Len(w)])
        Parsed(u) ==
            IF u = <<>> \/ \E i \in DOMAIN u : ~IsHexDigit(u[i])
            THEN [exc |-> "ValueError", val |-> 0]
            ELSE [exc |-> "none", val |-> Val(u)]
    IN Parsed(StripRight(StripLeft(t)))

hex_to_rgb(hex_color) ==
    LET Truncated(stripped) ==
            IF Len(stripped) = 8 THEN Slice(stripped, 0, 6) ELSE stripped
        Tuple(r, g, b) ==
            IF r.exc # "none" \/ g.exc # "none" \/ b.exc # "none"
            THEN [exc |-> "ValueError", rgb |-> <<>>]
            ELSE [exc |-> "none", rgb |-> <<r.val, g.val, b.val>>]
        Parsed(h) == Tuple(IntBase16(Slice(h, 0, 2)),
                           IntBase16(Slice(h, 2, 4)),
                           IntBase16(Slice(h, 4, 6)))
    IN Parsed(Truncated(lstrip(hex_color, "#")))

\* f"{n:02x}" for n >= 0
RECURSIVE HexDigitsOf(_)
HexDigitsOf(n) ==
    IF n < 16 THEN <<HexDigitChars[n + 1]>>
    ELSE HexDigitsOf(n \div 16) \o <<HexDigitChars[(n % 16) + 1]>>
\* Format02x without the zero padding of the width 2
Format02x_unpadded(n) == HexDigitsOf(n)
Format02x(n) == IF n < 16 THEN <<"0">> \o HexDigitsOf(n) ELSE HexDigitsOf(n)

rgb_to_hex(r, g, b) == <<"#">> \o Format02x(r) \o Format02x(g) \o Format02x(b)

\* adjust_channel(channel) for channel in 0..255, in units of 10^-5:
\* c / 12.92 for c = channel / 255 <= 0.03928, else ((c + 0.055) / 1.055) ** 2.4
AdjustChannelTable ==
<<
     0, 30, 61, 91, 121, 152, 182, 212, 243, 273, 304, 335,
     368, 402, 439, 478, 518, 561, 605, 651, 700, 750, 802, 857,
     913, 972, 1033, 1096, 1161, 1229, 1298, 1370, 1444, 1521, 1600, 1681,
     1764, 1850, 1938, 2029, 2122, 2217, 2315, 2416, 2519, 2624, 2732, 2843,
     2956, 3071, 3190, 3310, 3434, 3560, 3689, 3820, 3955, 4092, 4231, 4374,
     4519, 4667, 4817, 4971, 5127, 5286, 5448, 5613, 5781, 5951, 6125, 6301,
     6480, 6663, 6848, 7036, 7227, 7421, 7619, 7819, 8022, 8228, 8438, 8650,
     8866, 9084, 9306, 9531, 9759, 9990, 10224, 10462, 10702, 10946, 11193, 11444,
     11697, 11954, 12214, 12477, 12744, 13014, 13287, 13563, 13843, 14126, 14413, 14703,
     14996, 15293, 15593, 15896, 16203, 16513, 16827, 17144, 17465, 17789, 18116, 18447,
     18782, 19120, 19462, 19807, 20156, 20508, 20864, 21223, 21586, 21953, 22323, 22697,
     23074, 23455, 23840, 24228, 24620, 25016, 25415, 25818, 26225, 26636, 27050, 27468,
     27889, 28315, 28744, 29177, 29614, 30054, 30499, 30947, 31399, 31855, 32314, 32778,
     33245, 33716, 34191, 34670, 35153, 35640, 36131, 36625, 37124, 37626, 38133, 38643,
     39157, 39676, 40198, 40724, 41254, 41789, 42327, 42869, 43415, 43966, 44520, 45079,
     45641, 46208, 46778, 47353, 47932, 48515, 49102, 49693, 50289, 50888, 51492, 52100,
     52712, 53328, 53948, 54572, 55201, 55834, 56471, 57112, 57758, 58408, 59062, 59720,
     60383, 61050, 61721, 62396, 63076, 63760, 64448, 65141, 65837, 66539, 67244, 67954,
     68669, 69387, 70110, 70838, 71569, 72306, 73046, 73791, 74540, 75294, 76052, 76815,
     77582, 78354, 79130, 79910, 80695, 81485, 82279, 83077, 83880, 84687, 85499, 86316,
     87137, 87962, 88792, 89627, 90466, 91310, 92158, 93011, 93869, 94731, 95597, 96469,
     97345, 98225, 99110, 100000 >>

adjust_channel(channel) == AdjustChannelTable[channel + 1]

\* get_luminance in units of 10^-6 (channels outside 0..255 never arise:
\* hex_to_rgb reads two hex digits per channel)
get_luminance(hex_color) ==
    LET Weighted(p) ==
            IF p.exc # "none" THEN [exc |-> p.exc, val |-> 0]
            ELSE [exc |-> "none",
                  val |-> (2126 * adjust_channel(p.rgb[1])
                           + 7152 * adjust_channel(p.rgb[2])
                           + 722 * adjust_channel(p.rgb[3])) \div 1000]
    IN Weighted(hex_to_rgb(hex_color))

\* calculate_contrast_ratio dividing the first luminance by the second, with
\* no choice of the lighter one
calculate_contrast_ratio_ordered(bg_color, fg_color) ==
    LET RatioOf(l1, l2) ==
            IF l1.exc # "none" THEN [exc |-> l1.exc, val |-> 0]
            ELSE IF l2.exc # "none" THEN [exc |-> l2.exc, val |-> 0]
            ELSE [exc |-> "none",
                  val |-> ((l1.val + 50000) * 1000) \div (l2.val + 50000)]
    IN RatioOf(get_luminance(bg_color), get_luminance(fg_color))

\* calculate_contrast_ratio in thousandths: (lighter + 0.05) / (darker + 0.05)
calculate_contrast_ratio(bg_color, fg_color) ==
    LET Quotient(lighter, darker) ==
            ((lighter + 50000) * 1000) \div (darker + 50000)
        RatioOf(l1, l2) ==
            IF l1.exc # "none" THEN [exc |-> l1.exc, val |-> 0]
            ELSE IF l2.exc # "none" THEN [exc |-> l2.exc, val |-> 0]
            ELSE [exc |-> "none",
                  val |-> Quotient(MaxOf(l1.val, l2.val), MinOf(l1.val, l2.val))]
    IN RatioOf(get_luminance(bg_color), get_luminance(fg_color))

\* The double 1 + percent/100 lies below the exact factor for these percents,
\* and for these channels the double product r * factor lies below the exact
\* integer product, so int() truncates to one less.
FloatProductBelow(channel, percent) ==
    \/ percent = -90 /\ channel > 0 /\ channel % 10 = 0
    \/ percent = -80 /\ channel > 0 /\ channel % 5 = 0
    \/ percent = -30 /\ channel \in {90, 170, 180}
    \/ percent = 40 /\ channel \in {45, 85, 90, 165, 170, 175, 180}

\* max(0, min(255, int(channel * (1 + percent / 100)))), percent a multiple
\* of 10 in -100..100
ScaleChannel(channel, percent) ==
    LET AsInt(exact) ==
            IF FloatProductBelow(channel, percent) THEN exact - 1 ELSE exact
    IN MaxOf(0, MinOf(255, AsInt((channel * (100 + percent)) \div 100)))

adjust_brightness(hex_color, percent) ==
    LET Scaled(p) ==
            IF p.exc # "none" THEN [exc |-> p.exc, str |-> <<>>]
            ELSE [exc |-> "none",
                  str |-> rgb_to_hex(ScaleChannel(p.rgb[1], percent),
                                     ScaleChannel(p.rgb[2], percent),
                                     ScaleChannel(p.rgb[3], percent))]
    IN Scaled(hex_to_rgb(hex_color))

get_complementary_color(hex_color) ==
    LET Inverted(p) ==
            IF p.exc # "none" THEN [exc |-> p.exc, str |-> <<>>]
            ELSE [exc |-> "none",
                  str |-> rgb_to_hex(255 - p.rgb[1], 255 - p.rgb[2], 255 - p.rgb[3])]
    IN Inverted(hex_to_rgb(hex_color))

(***************************************************************************)
(* Colour functions called directly on a str                               *)
(***************************************************************************)
\* str arguments tried on the colour functions: well-formed colours in both
\* letter cases and both lengths, and malformed ones
ColorStrings ==
    { <<"#", "1", "e", "1", "e", "1", "e">>,
      <<"#", "D", "4", "D", "4", "D", "4">>,
      <<"#", "0", "0", "7", "a", "c", "c", "8", "0">>,
      <<"#", "f", "f", "f", "f", "f", "f">>,
      <<"#", "0", "0", "0", "0", "0", "0">>,
      <<"#", "8", "0", "8", "0", "8", "0">>,
      <<"#", "5", "a", "5", "a", "5", "a">>,
      <<"1", "2", "3", "4", "5", "6">>,
      <<"#", "1", "2", "3", "4", "5">>,
      <<"#", "1", "2", "3", "4", "5", "6", "7">>,
      <<"#", "a", "b", "c">>,
      <<"#", "g", "g", "g", "g", "g", "g">>,
      <<"#", "1", "2", "3", "4", "5", "6", "\n">>,
      <<"#", "1", "2", "3", "4", "5", "6", "7", "8", "\n">>,
      <<" ", "#", "1", "2", "3", "4", "5", "6">>,
      <<"#", "#", "1", "2", "3", "4", "5", "6">>,
      <<>>,
      <<"#", "1", "2", "3", "4", "5", "6", "7", "8", "9">>,
      <<"#", "1", "2", "3", "4", "5", "g">> }

\* percent arguments of adjust_brightness
Percents == {-100, -90, -80, -70, -60, -50, -40, -30, -20, -10, 0,
             10, 20, 30, 40, 50, 60, 70, 80, 90, 100}

NoCall == [fn |-> "none", percent |-> 0, other |-> <<>>, exc |-> "none",
           ok |-> FALSE, rgb |-> <<>>, str |-> <<>>, num |-> 0]

InitIdleColor == color_in = <<>> /\ color_call = NoCall

InitColor ==
    /\ color_in \in ColorStrings
    /\ color_call = NoCall

CallValidateHex ==
    /\ color_call.fn = "none"
    /\ color_call' = [NoCall EXCEPT !.fn = "validate_hex_color",
                                    !.ok = validate_hex_color(color_in)]
    /\ UNCHANGED <<color_in, contrastVars, validatorVars, pipelineVars>>

CallHexToRgb ==
    /\ color_call.fn = "none"
    /\ LET Returned(p) == [NoCall EXCEPT !.fn = "hex_to_rgb", !.exc = p.exc,
                                          !.rgb = p.rgb]
       IN color_call' = Returned(hex_to_rgb(color_in))
    /\ UNCHANGED <<color_in, contrastVars, validatorVars, pipelineVars>>

CallGetLuminance ==
    /\ color_call.fn = "none"
    /\ LET Returned(l) == [NoCall EXCEPT !.fn = "get_luminance", !.exc = l.exc,
                                          !.num = l.val]
       IN color_call' = Returned(get_luminance(color_in))
    /\ UNCHANGED <<color_in, contrastVars, validatorVars, pipelineVars>>

CallContrastRatio(other) ==
    /\ color_call.fn = "none"
    /\ LET Returned(c) == [NoCall EXCEPT !.fn = "calculate_contrast_ratio",
                                          !.other = other, !.exc = c.exc,
                                          !.num = c.val]
       IN color_call' = Returned(calculate_contrast_ratio(color_in, other))
    /\ UNCHANGED <<color_in, contrastVars, validatorVars, pipelineVars>>

CallAdjustBrightness(percent) ==
    /\ color_call.fn = "none"
    /\ LET Returned(a) == [NoCall EXCEPT !.fn = "adjust_brightness",
                                          !.percent = percent, !.exc = a.exc,
                                          !.str = a.str]
       IN color_call' = Returned(adjust_brightness(color_in, percent))
    /\ UNCHANGED <<color_in, contrastVars, validatorVars, pipelineVars>>

CallComplementary ==
    /\ color_call.fn = "none"
    /\ LET Returned(a) == [NoCall EXCEPT !.fn = "get_complementary_color",
                                          !.exc = a.exc, !.str = a.str]
       IN color_call' = Returned(get_complementary_color(color_in))
    /\ UNCHANGED <<color_in, contrastVars, validatorVars, pipelineVars>>

(***************************************************************************)
(* Contrast repair: AIEnhancer._check_and_fix_contrast                     *)
(***************************************************************************)
\* contrast_pairs; min in thousandths (7.0 and 4.5)
contrast_pairs ==
    << [bg |-> "editor.background", fg |-> "editor.foreground", min |-> 7000],
       [bg |-> "activityBar.background", fg |-> "activityBar.foreground", min |-> 4500],
       [bg |-> "sideBar.background", fg |-> "sideBar.foreground", min |-> 4500],
       [bg |-> "statusBar.background", fg |-> "statusBar.foreground", min |-> 4500],
       [bg |-> "terminal.background", fg |-> "terminal.foreground", min |-> 7000],
       [bg |-> "button.background", fg |-> "button.foreground", min |-> 4500],
       [bg |-> "input.background", fg |-> "input.foreground", min |-> 4500],
       [bg |-> "dropdown.background", fg |-> "dropdown.foreground", min |-> 4500],
       [bg |-> "list.activeSelectionBackground",
        fg |-> "list.activeSelectionForeground", min |-> 4500] >>

\* range(10, 100, 10)
ScanStart == 10
ScanStop == 100
ScanStep == 10

\* The loop of _adjust_for_contrast from `adjustment` on: the colour it
\* returns, or the exception a colour function raised
RECURSIVE ScanFrom(_, _, _, _)
ScanFrom(bg_color, fg_color, target_ratio, adjustment) ==
    IF adjustment >= ScanStop THEN [exc |-> "none", str |-> fg_color]
    ELSE LET Judge(candidate, ratio, otherwise) ==
                 IF candidate.exc # "none" THEN [exc |-> candidate.exc, str |-> <<>>]
                 ELSE IF ratio.exc # "none" THEN [exc |-> ratio.exc, str |-> <<>>]
                 ELSE IF ratio.val >= target_ratio THEN candidate
                 ELSE otherwise
             Try(candidate, otherwise) ==
                 Judge(candidate,
                       calculate_contrast_ratio(bg_color, candidate.str),
                       otherwise)
         IN Try(adjust_brightness(fg_color, adjustment),
                Try(adjust_brightness(fg_color, -adjustment),
                    ScanFrom(bg_color, fg_color, target_ratio,
                             adjustment + ScanStep)))

\* adjust_for_contrast with the darker candidate of a step tried first
RECURSIVE ScanFromDarkerFirst(_, _, _, _)
ScanFromDarkerFirst(bg_color, fg_color, target_ratio, adjustment) ==
    IF adjustment >= ScanStop THEN [exc |-> "none", str |-> fg_color]
    ELSE LET Try(candidate, otherwise) ==
                 IF calculate_contrast_ratio(bg_color, candidate.str).val
                        >= target_ratio
                 THEN candidate
                 ELSE otherwise
         IN Try(adjust_brightness(fg_color, -adjustment),
                Try(adjust_brightness(fg_color, adjustment),
                    ScanFromDarkerFirst(bg_color, fg_color, target_ratio,
                                        adjustment + ScanStep)))
adjust_for_contrast_darker_first(bg_color, fg_color, target_ratio) ==
    ScanFromDarkerFirst(bg_color, fg_color, target_ratio, ScanStart)

\* _adjust_for_contrast returning the first brighter candidate without
\* comparing its ratio with the target
adjust_for_contrast_unchecked(bg_color, fg_color, target_ratio) ==
    adjust_brightness(fg_color, ScanStart)

\* adjust_for_contrast returning the last candidate tried, not fg_color, when
\* no candidate meets the target
adjust_for_contrast_keeps_last(bg_color, fg_color, target_ratio) ==
    LET Last(r) ==
            IF /\ r.exc = "none"
               /\ calculate_contrast_ratio(bg_color, r.str).val < target_ratio
            THEN adjust_brightness(fg_color, ScanStep - ScanStop)
            ELSE r
    IN Last(ScanFrom(bg_color, fg_color, target_ratio, ScanStart))

adjust_for_contrast(bg_color, fg_color, target_ratio) ==
    ScanFrom(bg_color, fg_color, target_ratio, ScanStart)

\* FixRow writing the adjusted colour under the background key
FixRow_adjusts_background(colors_arg, fixed_colors, row) ==
    LET same == [exc |-> "none", val |-> fixed_colors]
        Written(fg_color, fixed_fg) ==
            IF fixed_fg.str # fg_color
            THEN [exc |-> "none",
                  val |-> [fixed_colors EXCEPT ![row.bg] = fixed_fg.str]]
            ELSE same
        Pair(bg_color, fg_color) ==
            IF ~validate_hex_color(bg_color) \/ ~validate_hex_color(fg_color)
            THEN same
            ELSE IF ~(calculate_contrast_ratio(bg_color, fg_color).val < row.min)
            THEN same
            ELSE Written(fg_color, adjust_for_contrast(bg_color, fg_color, row.min))
    IN IF ~(row.bg \in DOMAIN colors_arg /\ row.fg \in DOMAIN colors_arg) THEN same
       ELSE Pair(colors_arg[row.bg], colors_arg[row.fg])

\* One iteration of the loop over contrast_pairs: fixed_colors after the row
FixRow(colors_arg, fixed_colors, row) ==
    LET same == [exc |-> "none", val |-> fixed_colors]
        Written(fg_color, fixed_fg) ==
            IF fixed_fg.exc # "none" THEN [exc |-> fixed_fg.exc, val |-> fixed_colors]
            ELSE IF fixed_fg.str # <<>> /\ fixed_fg.str # fg_color
            THEN [exc |-> "none",
                  val |-> [fixed_colors EXCEPT ![row.fg] = fixed_fg.str]]
            ELSE same
        Checked(bg_color, fg_color, ratio) ==
            IF ratio.exc # "none" THEN [exc |-> ratio.exc, val |-> fixed_colors]
            ELSE IF ~(ratio.val < row.min) THEN same
            ELSE Written(fg_color, adjust_for_contrast(bg_color, fg_color, row.min))
        Pair(bg_color, fg_color) ==
            IF ~validate_hex_color(bg_color) \/ ~validate_hex_color(fg_color)
            THEN same
            ELSE Checked(bg_color, fg_color,
                         calculate_contrast_ratio(bg_color, fg_color))
    IN IF ~(row.bg \in DOMAIN colors_arg /\ row.fg \in DOMAIN colors_arg) THEN same
       ELSE Pair(colors_arg[row.bg], colors_arg[row.fg])

RECURSIVE FixRowsFrom(_, _, _)
FixRowsFrom(colors_arg, fixed_colors, i) ==
    IF i > Len(contrast_pairs) THEN [exc |-> "none", val |-> fixed_colors]
    ELSE LET Rest(r) ==
                 IF r.exc # "none" THEN r ELSE FixRowsFrom(colors_arg, r.val, i + 1)
         IN Rest(FixRow(colors_arg, fixed_colors, contrast_pairs[i]))

\* check_and_fix_contrast leaving the loop at the first row it skips
RECURSIVE FixRowsUntilSkip(_, _, _)
FixRowsUntilSkip(colors_arg, fixed_colors, i) ==
    IF i > Len(contrast_pairs) THEN [exc |-> "none", val |-> fixed_colors]
    ELSE LET Rest(r) ==
                 IF r.exc # "none" THEN r
                 ELSE FixRowsUntilSkip(colors_arg, r.val, i + 1)
         IN IF ~(contrast_pairs[i].bg \in DOMAIN colors_arg
                 /\ contrast_pairs[i].fg \in DOMAIN colors_arg)
            THEN [exc |-> "none", val |-> fixed_colors]
            ELSE Rest(FixRow(colors_arg, fixed_colors, contrast_pairs[i]))
check_and_fix_contrast_stops_at_skip(colors_arg) ==
    FixRowsUntilSkip(colors_arg, colors_arg, 1)

\* _check_and_fix_contrast(colors): exc and the returned fixed_colors
check_and_fix_contrast(colors_arg) == FixRowsFrom(colors_arg, colors_arg, 1)

\* Keys and values of the colour maps handed to contrast repair: the first,
\* the fifth and the last row of the table and one key outside it
ContrastKeys ==
    << "editor.background", "editor.foreground",
       "terminal.background", "terminal.foreground",
       "list.activeSelectionBackground", "list.activeSelectionForeground",
       "focusBorder" >>
ContrastValues ==
    { <<"#","1","e","1","e","1","e">>, <<"#","8","0","8","0","8","0">>,
      <<"#","F","F","F","F","F","F">>, <<"#","1","2","3","4","5">> }

\* at most this many entries in a colour map
MaxColors == 4

\* target_ratio arguments of a direct _adjust_for_contrast call, in
\* thousandths: the two ratios of the table and 3.0
TargetRatios == {3000, 4500, 7000}
AdjustColors ==
    { <<"#","1","e","1","e","1","e">>, <<"#","1","f","1","f","1","f">>,
      <<"#","8","0","8","0","8","0">>, <<"#","8","c","8","c","8","c">>,
      <<"#","F","F","F","F","F","F">>, <<"#","0","0","7","a","c","c">> }

\* again: what _check_and_fix_contrast returned for the map it had returned
NoOut == [done |-> FALSE, exc |-> "none", colors |-> <<>>,
          again |-> [done |-> FALSE, exc |-> "none", colors |-> <<>>]]
NoAdjust == [done |-> FALSE, bg |-> <<>>, fg |-> <<>>, target |-> 0,
             exc |-> "none", ret |-> <<>>]

InitIdleContrast == colors = <<>> /\ contrast_out = NoOut /\ adjust_call = NoAdjust

\* the arguments of a direct _adjust_for_contrast call
InitAdjust ==
    /\ colors = <<>> /\ contrast_out = NoOut
    /\ \E bg_color \in AdjustColors, fg_color \in AdjustColors,
          target_ratio \in TargetRatios :
            adjust_call = [NoAdjust EXCEPT !.bg = bg_color, !.fg = fg_color,
                                           !.target = target_ratio]

\* The theme's colour map gains an entry.  Entries are added in the order of
\* ContrastKeys, the i-th key after all keys before it.
SetColor(i, value) ==
    /\ Cardinality(DOMAIN colors) < MaxColors
    /\ \A j \in i..Len(ContrastKeys) : ContrastKeys[j] \notin DOMAIN colors
    /\ colors' = [k \in DOMAIN colors \cup {ContrastKeys[i]} |->
                    IF k = ContrastKeys[i] THEN value ELSE colors[k]]
    /\ contrast_out' = NoOut
    /\ UNCHANGED <<adjust_call, colorVars, validatorVars, pipelineVars>>

CheckAndFixContrast ==
    /\ ~contrast_out.done
    /\ LET Returned(r) == [NoOut EXCEPT !.done = TRUE, !.exc = r.exc,
                                        !.colors = r.val]
       IN contrast_out' = Returned(check_and_fix_contrast(colors))
    /\ UNCHANGED <<colors, adjust_call, colorVars, validatorVars, pipelineVars>>

\* _check_and_fix_contrast on the map the call before returned
CheckAndFixContrastAgain ==
    /\ contrast_out.done
    /\ contrast_out.exc = "none"
    /\ ~contrast_out.again.done
    /\ LET Returned(r) == [contrast_out EXCEPT
                              !.again = [done |-> TRUE, exc |-> r.exc,
                                         colors |-> r.val]]
       IN contrast_out' = Returned(check_and_fix_contrast(contrast_out.colors))
    /\ UNCHANGED <<colors, adjust_call, colorVars, validatorVars, pipelineVars>>

AdjustForContrast ==
    /\ ~adjust_call.done
    /\ LET Returned(r) == [adjust_call EXCEPT !.done = TRUE, !.exc = r.exc,
                                               !.ret = r.str]
       IN adjust_call' = Returned(adjust_for_contrast(adjust_call.bg,
                                                      adjust_call.fg,
                                                      adjust_call.target))
    /\ UNCHANGED <<colors, contrast_out, colorVars, validatorVars, pipelineVars>>

(***************************************************************************)
(* Python values of a theme definition: tagged records                     *)
(***************************************************************************)
PyStr(s) == [t |-> "str", v |-> s]
PyInt(n) == [t |-> "int", v |-> n]
PyDict(f) == [t |-> "dict", v |-> f]
PyList(q) == [t |-> "list", v |-> q]

\* key in d, d[key] and d[key] = val for a dict value d
Has(d, key) == key \in DOMAIN d.v
Put(d, key, val) ==
    PyDict([k \in DOMAIN d.v \cup {key} |-> IF k = key THEN val ELSE d.v[k]])
\* a dict of one entry
One(key, val) == PyDict([k \in {key} |-> val])

\* the order in which the entries of a colors dict were inserted: the order
\* of this sequence
KeyOrder ==
    << "editor.background", "editor.foreground",
       "activityBar.background", "activityBar.foreground",
       "sideBar.background", "sideBar.foreground",
       "statusBar.background", "statusBar.foreground",
       "button.background", "focusBorder" >>

\* constants.py: REQUIRED_COLOR_KEYS
REQUIRED_COLOR_KEYS ==
    << "editor.background", "editor.foreground",
       "activityBar.background", "activityBar.foreground",
       "sideBar.background", "sideBar.foreground",
       "statusBar.background", "statusBar.foreground" >>

(***************************************************************************)
(* ThemeValidator.fix_theme                                                *)
(***************************************************************************)
get_minimal_required_colors ==
    PyDict([k \in Range(REQUIRED_COLOR_KEYS) |->
        CASE k = "editor.background" -> PyStr(<<"#", "1", "e", "1", "e", "1", "e">>)
          [] k = "editor.foreground" -> PyStr(<<"#", "d", "4", "d", "4", "d", "4">>)
          [] k = "activityBar.background" -> PyStr(<<"#", "3", "3", "3", "3", "3", "3">>)
          [] k = "activityBar.foreground" -> PyStr(<<"#", "f", "f", "f", "f", "f", "f">>)
          [] k = "sideBar.background" -> PyStr(<<"#", "2", "5", "2", "5", "2", "6">>)
          [] k = "sideBar.foreground" -> PyStr(<<"#", "c", "c", "c", "c", "c", "c">>)
          [] k = "statusBar.background" -> PyStr(<<"#", "0", "0", "7", "a", "c", "c">>)
          [] k = "statusBar.foreground" -> PyStr(<<"#", "f", "f", "f", "f", "f", "f">>)])

\* only called with a key of REQUIRED_COLOR_KEYS, all of which have a default
get_default_color_for_key(key) == get_minimal_required_colors.v[key]

\* ''.join([c*2 for c in hex_part])
RECURSIVE DoubleEach(_)
DoubleEach(s) ==
    IF s = <<>> THEN <<>> ELSE <<Head(s), Head(s)>> \o DoubleEach(Tail(s))

\* re.match(r'^[0-9A-Fa-f]{6}$', value)
MatchBareHex6(value) ==
    /\ Len(value) >= 6
    /\ \A i \in 1..6 : IsHexDigit(value[i])
    /\ AtDollar(value, 6)

\* The body of the loop of _fix_colors for one value: whether the entry is
\* kept in fixed_colors, and with which value
FixColorValue(value) ==
    IF value.t = "str"
    THEN IF value.v # <<>> /\ Head(value.v) = "#"
         THEN LET hex_part == upper(Tail(value.v))
              IN IF Len(hex_part) = 3
                 THEN [keep |-> TRUE, val |-> PyStr(<<"#">> \o DoubleEach(hex_part))]
                 ELSE IF Len(hex_part) \in {6, 8}
                 THEN [keep |-> TRUE, val |-> PyStr(<<"#">> \o hex_part)]
                 ELSE [keep |-> FALSE, val |-> value]
         ELSE IF MatchBareHex6(value.v)
              THEN [keep |-> TRUE, val |-> PyStr(<<"#">> \o upper(value.v))]
              ELSE [keep |-> FALSE, val |-> value]
    ELSE [keep |-> FALSE, val |-> value]

\* _fix_colors writing the default of every required key, also over a value the
\* loop kept
fix_colors_defaults_win(colors_arg) ==
    IF colors_arg.t \in {"int", "none"}
    THEN [exc |-> "TypeError", val |-> PyDict(<<>>)]
    ELSE IF colors_arg.t # "dict"
    THEN [exc |-> "AttributeError", val |-> PyDict(<<>>)]
    ELSE LET kept == {k \in DOMAIN colors_arg.v : FixColorValue(colors_arg.v[k]).keep}
         IN [exc |-> "none",
             val |-> PyDict([k \in kept \cup Range(REQUIRED_COLOR_KEYS) |->
                            IF k \in Range(REQUIRED_COLOR_KEYS)
                            THEN get_default_color_for_key(k)
                            ELSE FixColorValue(colors_arg.v[k]).val])]

\* _fix_colors: len(colors) raises for an unsized value and colors.items()
\* for a value that is no dict
fix_colors(colors_arg) ==
    IF colors_arg.t \in {"int", "none"}
    THEN [exc |-> "TypeError", val |-> PyDict(<<>>)]
    ELSE IF colors_arg.t # "dict"
    THEN [exc |-> "AttributeError", val |-> PyDict(<<>>)]
    ELSE LET kept == {k \in DOMAIN colors_arg.v : FixColorValue(colors_arg.v[k]).keep}
         IN [exc |-> "none",
             val |-> PyDict([k \in kept \cup Range(REQUIRED_COLOR_KEYS) |->
                            IF k \in kept
                            THEN FixColorValue(colors_arg.v[k]).val
                            ELSE get_default_color_for_key(k)])]

\* The body of the loop of _fix_token_colors for one token
FixToken(token) ==
    IF token.t # "dict" THEN [keep |-> FALSE, val |-> token]
    ELSE IF ~Has(token, "scope") THEN [keep |-> FALSE, val |-> token]
    ELSE IF token.v["scope"].t \notin {"str", "list"}
    THEN [keep |-> FALSE, val |-> token]
    ELSE
    LET scope == token.v["scope"]
        withScope == One("scope", IF scope.t = "str" THEN PyList(<<scope>>) ELSE scope)
        hasSettings == Has(token, "settings") /\ token.v["settings"].t = "dict"
        src == token.v["settings"]
        keepFg == /\ Has(src, "foreground")
                  /\ src.v["foreground"].t = "str"
                  /\ validate_hex_color(src.v["foreground"].v)
        keys == (IF keepFg THEN {"foreground"} ELSE {})
                \cup ({"fontStyle", "background"} \cap DOMAIN src.v)
        settings == PyDict([k \in keys |-> src.v[k]])
        withSettings == IF hasSettings /\ keys # {}
                        THEN Put(withScope, "settings", settings)
                        ELSE withScope
        fixed_token == IF Has(token, "name")
                       THEN Put(withSettings, "name", token.v["name"])
                       ELSE withSettings
    IN [keep |-> Has(fixed_token, "settings"), val |-> fixed_token]

RECURSIVE FixTokens(_)
FixTokens(tokens) ==
    IF tokens = <<>> THEN <<>>
    ELSE LET f == FixToken(Head(tokens))
         IN (IF f.keep THEN <<f.val>> ELSE <<>>) \o FixTokens(Tail(tokens))

fix_token_colors(token_colors) ==
    IF token_colors.t # "list" THEN PyList(<<>>)
    ELSE PyList(FixTokens(token_colors.v))

\* str.replace('_', ' ') and str.title()
ReplaceUnderscore(s) == [i \in DOMAIN s |-> IF s[i] = "_" THEN " " ELSE s[i]]
Title(s) ==
    [i \in DOMAIN s |->
        IF i = 1 \/ ~IsAlpha(s[i - 1]) THEN ToUpper(s[i]) ELSE ToLower(s[i])]

StrUnnamedTheme == <<"u", "n", "n", "a", "m", "e", "d", "_", "t", "h", "e", "m", "e">>
StrDefaultDescription == <<"A", " ", "c", "u", "s", "t", "o", "m", " ", "V", "S", " ", "C", "o", "d", "e", " ", "t", "h", "e", "m", "e">>
StrDefaultVersion == <<"1", ".", "0", ".", "0">>

\* fix_theme(theme_def): exc, the returned fixed_def, and the value of the
\* caller's theme_def object when the call ends (theme_data is the caller's
\* own dict, and fixed_def shares it)
fix_theme(theme_def_arg) ==
    LET wrapped == Has(theme_def_arg, "theme")
        td0 == IF wrapped THEN theme_def_arg.v["theme"] ELSE theme_def_arg
        After(td) == IF wrapped THEN Put(theme_def_arg, "theme", td) ELSE td
        Fixed(td) == IF wrapped THEN Put(theme_def_arg, "theme", td)
                     ELSE One("theme", td)
        td1 == IF ~Has(td0, "name") THEN Put(td0, "name", PyStr(StrUnnamedTheme))
               ELSE td0
        raise2 == ~Has(td1, "display_name") /\ td1.v["name"].t # "str"
        td2 == IF ~Has(td1, "display_name")
               THEN Put(td1, "display_name",
                        PyStr(Title(ReplaceUnderscore(td1.v["name"].v))))
               ELSE td1
        td3 == IF ~Has(td2, "description")
               THEN Put(td2, "description", PyStr(StrDefaultDescription))
               ELSE td2
        td4 == IF ~Has(td3, "version")
               THEN Put(td3, "version", PyStr(StrDefaultVersion))
               ELSE td3
        fc == IF Has(td4, "colors") THEN fix_colors(td4.v["colors"])
              ELSE [exc |-> "none", val |-> get_minimal_required_colors]
        td5 == Put(td4, "colors", fc.val)
        td6 == IF Has(td5, "token_colors")
               THEN Put(td5, "token_colors", fix_token_colors(td5.v["token_colors"]))
               ELSE td5
    IN IF raise2
       THEN [exc |-> "AttributeError", val |-> PyDict(<<>>), arg |-> After(td1)]
       ELSE IF fc.exc # "none"
       THEN [exc |-> fc.exc, val |-> PyDict(<<>>), arg |-> After(td4)]
       ELSE [exc |-> "none", val |-> Fixed(td6), arg |-> After(td6)]

(***************************************************************************)
(* ThemeValidator.validate_with_errors                                     *)
(***************************************************************************)
\* An entry of self.errors: the kind of the message and what it names
Error(kind, key, idx, keys) == [kind |-> kind, key |-> key, idx |-> idx, keys |-> keys]

\* the positions at which '$' can hold
DollarEnds(s) == {e \in 0..Len(s) : AtDollar(s, e)}

IsAlnum(c) == IsAlpha(c) \/ c \in DigitChars

\* re.match(r'^[a-z0-9\-_]+$', name)
MatchName(name) ==
    \E e \in DollarEnds(name) :
        /\ e >= 1
        /\ \A i \in 1..e : IsLower(name[i]) \/ name[i] \in DigitChars \cup {"-", "_"}

\* re.match(r'^\d+\.\d+\.\d+$', version)
MatchVersion(version) ==
    \E e \in DollarEnds(version) : \E i, j \in 2..(e - 1) :
        /\ i + 1 < j
        /\ version[i] = "." /\ version[j] = "."
        /\ \A k \in (1..e) \ {i, j} : version[k] \in DigitChars

\* re.match(r'^[a-zA-Z0-9._%+-]+@[a-zA-Z0-9.-]+\.[a-zA-Z]{2,}$', email)
MatchEmail(email) ==
    \E e \in DollarEnds(email) : \E a, d \in 2..(e - 2) :
        /\ a + 1 < d
        /\ email[a] = "@" /\ email[d] = "."
        /\ \A k \in 1..(a - 1) : IsAlnum(email[k]) \/ email[k] \in {".", "_", "%", "+", "-"}
        /\ \A k \in (a + 1)..(d - 1) : IsAlnum(email[k]) \/ email[k] \in {".", "-"}
        /\ \A k \in (d + 1)..e : IsAlpha(email[k])

\* bool(value)
Truthy(value) ==
    CASE value.t = "str" -> value.v # <<>>
      [] value.t = "int" -> value.v # 0
      [] value.t = "list" -> value.v # <<>>
      [] value.t = "dict" -> DOMAIN value.v # {}
      [] OTHER -> FALSE

\* len(value) is defined
Sized(value) == value.t \in {"str", "list", "dict"}

\* _validate_required_fields with 'name' as the only required field
validate_required_fields_name_only(theme_data, errs) ==
    LET e1 == IF ~Has(theme_data, "name")
              THEN Append(errs, Error("missing_field", "name", 0, {}))
              ELSE errs
    IN IF ~Has(theme_data, "name") THEN [exc |-> "none", errs |-> e1]
       ELSE IF theme_data.v["name"].t # "str" THEN [exc |-> "TypeError", errs |-> e1]
       ELSE IF ~MatchName(theme_data.v["name"].v)
       THEN [exc |-> "none", errs |-> Append(e1, Error("name_format", "name", 0, {}))]
       ELSE [exc |-> "none", errs |-> e1]

validate_required_fields(theme_data, errs) ==
    LET e1 == IF ~Has(theme_data, "name")
              THEN Append(errs, Error("missing_field", "name", 0, {}))
              ELSE errs
        e2 == IF ~Has(theme_data, "colors")
              THEN Append(e1, Error("missing_field", "colors", 0, {}))
              ELSE e1
    IN IF ~Has(theme_data, "name") THEN [exc |-> "none", errs |-> e2]
       ELSE IF theme_data.v["name"].t # "str" THEN [exc |-> "TypeError", errs |-> e2]
       ELSE IF ~MatchName(theme_data.v["name"].v)
       THEN [exc |-> "none", errs |-> Append(e2, Error("name_format", "name", 0, {}))]
       ELSE [exc |-> "none", errs |-> e2]

\* The loop over colors.items() left at the first offending entry
RECURSIVE ValidateColorEntries_stops(_, _, _)
ValidateColorEntries_stops(colors_arg, i, errs) ==
    IF i > Len(KeyOrder) THEN errs
    ELSE IF KeyOrder[i] \notin DOMAIN colors_arg.v
    THEN ValidateColorEntries_stops(colors_arg, i + 1, errs)
    ELSE IF colors_arg.v[KeyOrder[i]].t # "str"
    THEN Append(errs, Error("color_type", KeyOrder[i], 0, {}))
    ELSE IF ~validate_hex_color(colors_arg.v[KeyOrder[i]].v)
    THEN Append(errs, Error("color_format", KeyOrder[i], 0, {}))
    ELSE ValidateColorEntries_stops(colors_arg, i + 1, errs)

\* The loop over colors.items(), entries in the order of KeyOrder
RECURSIVE ValidateColorEntries(_, _, _)
ValidateColorEntries(colors_arg, i, errs) ==
    IF i > Len(KeyOrder) THEN errs
    ELSE LET key == KeyOrder[i]
         IN IF key \notin DOMAIN colors_arg.v
            THEN ValidateColorEntries(colors_arg, i + 1, errs)
            ELSE IF colors_arg.v[key].t # "str"
            THEN ValidateColorEntries(colors_arg, i + 1,
                     Append(errs, Error("color_type", key, 0, {})))
            ELSE IF ~validate_hex_color(colors_arg.v[key].v)
            THEN ValidateColorEntries(colors_arg, i + 1,
                     Append(errs, Error("color_format", key, 0, {})))
            ELSE ValidateColorEntries(colors_arg, i + 1, errs)

\* _validate_colors reporting only the first missing required key
validate_colors_first_missing(colors_arg, errs) ==
    LET missing_colors ==
            IF colors_arg.t = "dict"
            THEN {k \in Range(REQUIRED_COLOR_KEYS) : k \notin DOMAIN colors_arg.v}
            ELSE Range(REQUIRED_COLOR_KEYS)
        first == CHOOSE i \in DOMAIN REQUIRED_COLOR_KEYS :
                    /\ REQUIRED_COLOR_KEYS[i] \in missing_colors
                    /\ \A j \in 1..(i - 1) : REQUIRED_COLOR_KEYS[j] \notin missing_colors
        e1 == IF missing_colors # {}
              THEN Append(errs, Error("missing_colors", "colors", 0,
                                      {REQUIRED_COLOR_KEYS[first]}))
              ELSE errs
    IN IF colors_arg.t # "dict" THEN [exc |-> "AttributeError", errs |-> e1]
       ELSE [exc |-> "none", errs |-> ValidateColorEntries(colors_arg, 1, e1)]

\* _validate_colors for a sized value (the caller has taken its len()).  A
\* list or str argument holds none of the required keys.
validate_colors(colors_arg, errs) ==
    LET missing_colors ==
            IF colors_arg.t = "dict"
            THEN {k \in Range(REQUIRED_COLOR_KEYS) : k \notin DOMAIN colors_arg.v}
            ELSE Range(REQUIRED_COLOR_KEYS)
        e1 == IF missing_colors # {}
              THEN Append(errs, Error("missing_colors", "colors", 0, missing_colors))
              ELSE errs
    IN IF colors_arg.t # "dict" THEN [exc |-> "AttributeError", errs |-> e1]
       ELSE [exc |-> "none", errs |-> ValidateColorEntries(colors_arg, 1, e1)]

\* The body of the loop of _validate_token_colors for the token at index idx
ValidateToken(token, idx, errs) ==
    IF token.t # "dict"
    THEN [exc |-> "none", errs |-> Append(errs, Error("token_not_dict", "", idx, {}))]
    ELSE
    LET e1 == IF ~Has(token, "scope")
              THEN Append(errs, Error("token_missing_scope", "", idx, {}))
              ELSE errs
        joinRaises == /\ Has(token, "scope")
                      /\ token.v["scope"].t = "list"
                      /\ \E i \in DOMAIN token.v["scope"].v :
                            token.v["scope"].v[i].t # "str"
        settings == token.v["settings"]
    IN IF joinRaises THEN [exc |-> "TypeError", errs |-> e1]
       ELSE IF ~Has(token, "settings")
       THEN [exc |-> "none",
             errs |-> Append(e1, Error("token_missing_settings", "", idx, {}))]
       ELSE IF settings.t # "dict"
       THEN [exc |-> "none",
             errs |-> Append(e1, Error("token_settings_not_dict", "", idx, {}))]
       ELSE IF ~Has(settings, "foreground") THEN [exc |-> "none", errs |-> e1]
       ELSE IF settings.v["foreground"].t # "str"
       THEN [exc |-> "TypeError", errs |-> e1]
       ELSE IF ~validate_hex_color(settings.v["foreground"].v)
       THEN [exc |-> "none",
             errs |-> Append(e1, Error("token_foreground", "", idx, {}))]
       ELSE [exc |-> "none", errs |-> e1]

RECURSIVE ValidateTokens(_, _, _)
ValidateTokens(tokens, i, errs) ==
    IF i > Len(tokens) THEN [exc |-> "none", errs |-> errs]
    ELSE LET r == ValidateToken(tokens[i], i - 1, errs)
         IN IF r.exc # "none" THEN r ELSE ValidateTokens(tokens, i + 1, r.errs)

validate_token_colors(token_colors, errs) ==
    IF token_colors.t # "list"
    THEN [exc |-> "none", errs |-> Append(errs, Error("tokens_not_list", "", 0, {}))]
    ELSE ValidateTokens(token_colors.v, 1, errs)

validate_metadata(theme_data, errs) ==
    LET version == theme_data.v["version"]
        vr == IF ~Has(theme_data, "version") THEN [exc |-> "none", errs |-> errs]
              ELSE IF version.t # "str" THEN [exc |-> "TypeError", errs |-> errs]
              ELSE IF ~MatchVersion(version.v)
              THEN [exc |-> "none",
                    errs |-> Append(errs, Error("version_format", "version", 0, {}))]
              ELSE [exc |-> "none", errs |-> errs]
        author == theme_data.v["author"]
        checkEmail == /\ Has(theme_data, "author")
                      /\ author.t = "dict"
                      /\ Has(author, "email")
                      /\ Truthy(author.v["email"])
        email == author.v["email"]
    IN IF vr.exc # "none" THEN vr
       ELSE IF ~checkEmail THEN vr
       ELSE IF email.t # "str" THEN [exc |-> "TypeError", errs |-> vr.errs]
       ELSE IF ~MatchEmail(email.v)
       THEN [exc |-> "none",
             errs |-> Append(vr.errs, Error("email_format", "author", 0, {}))]
       ELSE vr

\* The rule groups of validate_with_errors, appending to self.errors from
\* errs on: exc, the returned pair (valid, errors) and self.errors at the end
ValidateInto(theme_def_arg, errs) ==
    LET theme_data == IF Has(theme_def_arg, "theme") THEN theme_def_arg.v["theme"]
                      ELSE theme_def_arg
        r1 == validate_required_fields(theme_data, errs)
        r2 == IF ~Has(theme_data, "colors") THEN r1
              ELSE IF ~Sized(theme_data.v["colors"])
              THEN [exc |-> "TypeError", errs |-> r1.errs]
              ELSE validate_colors(theme_data.v["colors"], r1.errs)
        r3 == IF ~Has(theme_data, "token_colors") THEN r2
              ELSE IF ~Sized(theme_data.v["token_colors"])
              THEN [exc |-> "TypeError", errs |-> r2.errs]
              ELSE validate_token_colors(theme_data.v["token_colors"], r2.errs)
        r4 == validate_metadata(theme_data, r3.errs)
        raised == IF r1.exc # "none" THEN r1
                  ELSE IF r2.exc # "none" THEN r2
                  ELSE IF r3.exc # "none" THEN r3
                  ELSE r4
    IN IF raised.exc # "none"
       THEN [exc |-> raised.exc, valid |-> FALSE, errors |-> <<>>,
             self_errors |-> raised.errs]
       ELSE [exc |-> "none", valid |-> (Len(r4.errs) = 0), errors |-> r4.errs,
             self_errors |-> r4.errs]

\* validate_with_errors appending to the list self.errors already is
validate_with_errors_keeps_list(self_errors, theme_def_arg) ==
    LET Same(r) == [exc |-> r.exc, valid |-> r.valid, errors |-> r.errors,
                    self_errors |-> r.self_errors, previous |-> r.self_errors]
    IN Same(ValidateInto(theme_def_arg, self_errors))

\* validate_with_errors(theme_def) on an instance whose self.errors is the
\* list self_errors: self.errors is bound to a new empty list, which the rule
\* groups fill and the call returns; previous is the list self.errors was
validate_with_errors(self_errors, theme_def_arg) ==
    LET Fresh(r) == [exc |-> r.exc, valid |-> r.valid, errors |-> r.errors,
                     self_errors |-> r.self_errors, previous |-> self_errors]
    IN Fresh(ValidateInto(theme_def_arg, <<>>))

(***************************************************************************)
(* Theme definitions handed to the validator                               *)
(***************************************************************************)
PyNone == [t |-> "none", v |-> 0]

\* a colors dict that passes validation
ValidColors ==
    PyDict([k \in Range(REQUIRED_COLOR_KEYS) |->
        IF k = "editor.background" THEN PyStr(<<"#", "1", "e", "1", "e", "1", "e">>)
        ELSE IF k = "editor.foreground" THEN PyStr(<<"#", "D", "4", "D", "4", "D", "4">>)
        ELSE PyStr(<<"#", "0", "0", "f", "f", "0", "0", "8", "0">>)])

\* a colors dict with one entry of each kind _fix_colors tells apart
MixedColors ==
    PyDict([k \in {"editor.background", "editor.foreground", "sideBar.background",
                   "button.background", "focusBorder"} |->
        CASE k = "editor.background" -> PyStr(<<"#", "a", "b", "c">>)
          [] k = "editor.foreground" -> PyStr(<<"#", "1", "2", "3", "4", "5">>)
          [] k = "sideBar.background" -> PyStr(<<"1", "e", "1", "e", "1", "e">>)
          [] k = "button.background" -> PyInt(5)
          [] k = "focusBorder" -> PyStr(<<"r", "e", "d">>)])

\* a colors dict whose values are not hex colours but have a length, or a
\* last line break, that _fix_colors lets through
OddColors ==
    PyDict([k \in {"editor.background", "statusBar.background", "button.background",
                   "focusBorder"} |->
        CASE k = "editor.background" -> PyStr(<<"#", "g", "g", "g", "g", "g", "g">>)
          [] k = "statusBar.background" -> PyStr(<<"a", "b", "c", "d", "e", "f", "\n">>)
          [] k = "button.background" -> PyStr(<<"1", "e", "1", "e", "1", "e", "\n">>)
          [] k = "focusBorder" -> PyStr(<<"#", "g", "g", "g">>)])

TokenGood ==
    PyDict([k \in {"name", "scope", "settings"} |->
        CASE k = "name" -> PyStr(<<"C", "o", "m", "m", "e", "n", "t">>)
          [] k = "scope" -> PyList(<<PyStr(<<"c", "o", "m", "m", "e", "n", "t">>)>>)
          [] k = "settings" ->
               PyDict([j \in {"foreground", "fontStyle"} |->
                   IF j = "foreground" THEN PyStr(<<"#", "6", "a", "9", "9", "5", "5">>)
                   ELSE PyStr(<<"i", "t", "a", "l", "i", "c">>)])])
TokenStringScope ==
    PyDict([k \in {"scope", "settings"} |->
        CASE k = "scope" -> PyStr(<<"k", "e", "y", "w", "o", "r", "d">>)
          [] k = "settings" ->
               PyDict([j \in {"foreground", "background", "fontWeight"} |->
                   CASE j = "foreground" -> PyStr(<<"b", "l", "u", "e">>)
                     [] j = "background" -> PyStr(<<"#", "0", "0", "0", "0", "0", "0">>)
                     [] j = "fontWeight" -> PyStr(<<"b", "o", "l", "d">>)])])
TokenNoSettings == One("scope", PyList(<<PyStr(<<"s", "t", "r", "i", "n", "g">>)>>))
TokenNoScope == One("settings", One("foreground", PyStr(<<"#", "c", "e", "9", "1", "7", "8">>)))
TokenBadTypes ==
    PyDict([k \in {"scope", "settings"} |->
        CASE k = "scope" -> PyInt(7)
          [] k = "settings" -> PyStr(<<"b", "o", "l", "d">>)])
TokenScopeOfInts ==
    PyDict([k \in {"scope", "settings"} |->
        CASE k = "scope" -> PyList(<<PyInt(1)>>)
          [] k = "settings" -> One("fontStyle", PyStr(<<"b", "o", "l", "d">>))])
TokenForegroundInt ==
    PyDict([k \in {"scope", "settings"} |->
        CASE k = "scope" -> PyList(<<PyStr(<<"n", "u", "m", "b", "e", "r">>)>>)
          [] k = "settings" -> One("foreground", PyInt(255))])

TokenEmptyScope ==
    PyDict([k \in {"scope", "settings"} |->
        CASE k = "scope" -> PyList(<<>>)
          [] k = "settings" -> One("fontStyle", PyStr(<<"b", "o", "l", "d">>))])

\* the values a field of the theme data is given
FieldOptions ==
    { <<"name", PyStr(<<"m", "y", "_", "t", "h", "e", "m", "e">>)>>,
      <<"name", PyStr(<<"B", "a", "d", " ", "N", "a", "m", "e", "!">>)>>,
      <<"name", PyInt(5)>>,
      <<"display_name", PyStr(<<"M", "i", "n", "e">>)>>,
      <<"description", PyStr(<<"d", "a", "r", "k">>)>>,
      <<"version", PyStr(<<"2", ".", "1", ".", "0">>)>>,
      <<"version", PyStr(<<"2", ".", "1">>)>>,
      <<"version", PyInt(2)>>,
      <<"colors", PyDict(<<>>)>>,
      <<"colors", ValidColors>>,
      <<"colors", MixedColors>>,
      <<"colors", OddColors>>,
      <<"colors", PyInt(5)>>,
      <<"colors", PyList(<<>>)>>,
      <<"token_colors", PyList(<<TokenGood, TokenStringScope>>)>>,
      <<"token_colors", PyList(<<TokenNoSettings, PyStr(<<"j", "u", "n", "k">>), TokenNoScope,
                                 TokenBadTypes>>)>>,
      <<"token_colors", PyList(<<TokenScopeOfInts, TokenGood>>)>>,
      <<"token_colors", PyList(<<TokenForegroundInt, TokenEmptyScope>>)>>,
      <<"token_colors", PyStr(<<"n", "o", "n", "e">>)>>,
      <<"token_colors", PyNone>>,
      <<"author", One("email", PyStr(<<"m", "e", "@", "e", "x", "a", "m", "p", "l", "e", ".", "c", "o", "m">>))>>,
      <<"author", One("email", PyStr(<<"m", "e", ".", "e", "x", "a", "m", "p", "l", "e">>))>>,
      <<"author", One("email", PyInt(5))>> }

\* at most this many fields in the theme data a caller builds
MaxFields == 2
\* at most this many validator calls on one instance
MaxCalls == 3

NoReturn == [op |-> "none", exc |-> "none", valid |-> FALSE, errors |-> <<>>,
             val |-> PyDict(<<>>)]

\* has: the validate call before the latest one returned its list; was: the
\* list as it was returned; now: the list as it is; latest: the latest
\* validate call returned its list
NoKept == [has |-> FALSE, was |-> <<>>, now |-> <<>>, latest |-> FALSE]

InitIdleValidator ==
    /\ theme_def = PyDict(<<>>) /\ snapshot = PyDict(<<>>)
    /\ earlier_list = NoKept
    /\ returned = NoReturn /\ errors = <<>> /\ calls = 0

\* __init__, and an empty theme definition with or without the 'theme' level
InitValidator ==
    /\ theme_def \in {PyDict(<<>>), One("theme", PyDict(<<>>))}
    /\ snapshot = theme_def
    /\ earlier_list = NoKept
    /\ returned = NoReturn
    /\ errors = <<>>
    /\ calls = 0

ThemeData(def) == IF Has(def, "theme") THEN def.v["theme"] ELSE def

\* the caller builds the definition before it hands it to the validator
SetField(field, value) ==
    /\ calls = 0
    /\ ~Has(ThemeData(theme_def), field)
    /\ Cardinality(DOMAIN ThemeData(theme_def).v) < MaxFields
    /\ theme_def' = IF Has(theme_def, "theme")
                    THEN One("theme", Put(theme_def.v["theme"], field, value))
                    ELSE Put(theme_def, field, value)
    /\ snapshot' = theme_def'
    /\ UNCHANGED <<earlier_list, returned, errors, calls, colorVars, contrastVars, pipelineVars>>

Validate ==
    /\ calls < MaxCalls
    /\ LET r == validate_with_errors(errors, theme_def)
       IN /\ returned' = [op |-> "validate", exc |-> r.exc, valid |-> r.valid,
                          errors |-> r.errors, val |-> PyDict(<<>>)]
          /\ errors' = r.self_errors
          /\ earlier_list' = [has |-> earlier_list.latest, was |-> errors,
                              now |-> r.previous, latest |-> r.exc = "none"]
    /\ snapshot' = theme_def
    /\ calls' = calls + 1
    /\ UNCHANGED <<theme_def, colorVars, contrastVars, pipelineVars>>

Fix ==
    /\ calls < MaxCalls
    /\ LET r == fix_theme(theme_def)
       IN /\ returned' = [op |-> "fix", exc |-> r.exc, valid |-> FALSE,
                          errors |-> <<>>, val |-> r.val]
          /\ theme_def' = r.arg
    /\ snapshot' = theme_def
    /\ calls' = calls + 1
    /\ UNCHANGED <<earlier_list, errors, colorVars, contrastVars, pipelineVars>>

\* fix_theme on a copy of the value the last fix_theme returned
FixReturned ==
    /\ calls < MaxCalls
    /\ returned.op \in {"fix", "refix"}
    /\ returned.exc = "none"
    /\ LET r == fix_theme(returned.val)
       IN /\ returned' = [op |-> "refix", exc |-> r.exc, valid |-> FALSE,
                          errors |-> <<>>, val |-> r.val]
          /\ theme_def' = r.arg
    /\ snapshot' = returned.val
    /\ calls' = calls + 1
    /\ UNCHANGED <<earlier_list, errors, colorVars, contrastVars, pipelineVars>>

(***************************************************************************)
(* AI colour suggestions: AIEnhancer._optimize_colors                      *)
(***************************************************************************)
\* str(n) of an int n >= 0
RECURSIVE DecimalDigits(_)
DecimalDigits(n) ==
    LET digit == <<"0", "1", "2", "3", "4", "5", "6", "7", "8", "9">>[(n % 10) + 1]
    IN IF n < 10 THEN <<digit>> ELSE DecimalDigits(n \div 10) \o <<digit>>

\* str(color) of a value of the parsed dict
str_of(value) ==
    IF value.t = "str" THEN value.v
    ELSE IF value.t = "int" THEN DecimalDigits(value.v)
    ELSE <<"N", "o", "n", "e">>

\* the length of the longest prefix of s made of [0-9A-Fa-f]
HexRunLen(s) ==
    CHOOSE n \in 0..Len(s) :
        /\ \A i \in 1..n : IsHexDigit(s[i])
        /\ n < Len(s) => ~IsHexDigit(s[n + 1])

\* What r':\s*(#[0-9A-Fa-f]{6,8})' makes of the text after the ':' that ends
\* the key: whether it matches, and group 2
MatchSuggestionLine(rest) ==
    LET Group(t) ==
            IF t = <<>> \/ Head(t) # "#" \/ HexRunLen(Tail(t)) < 6
            THEN [found |-> FALSE, color |-> <<>>]
            ELSE [found |-> TRUE,
                  color |-> SubSeq(t, 1, 1 + MinOf(8, HexRunLen(Tail(t))))]
    IN Group(StripLeft(rest))

\* The loop over the lines of the reply from line i on.  A line is the key
\* re.search finds before ':' and the text after the ':'.
RECURSIVE ParseLines(_, _, _, _)
ParseLines(lines, i, optimized, original_colors) ==
    IF i > Len(lines) THEN optimized
    ELSE LET Taken(key, m) ==
                 IF m.found /\ key \in DOMAIN original_colors
                            /\ validate_hex_color(m.color)
                 THEN [k \in DOMAIN optimized |->
                          IF k = key THEN m.color ELSE optimized[k]]
                 ELSE optimized
         IN ParseLines(lines, i + 1,
                       Taken(lines[i].key, MatchSuggestionLine(lines[i].rest)),
                       original_colors)

\* the loop over parsed_dict.items() taking a suggestion without validating it
RECURSIVE ParsePairs_unchecked(_, _, _, _)
ParsePairs_unchecked(pairs, i, optimized, original_colors) ==
    IF i > Len(pairs) THEN optimized
    ELSE LET Taken(key, color) ==
                 IF key \in DOMAIN original_colors
                 THEN [k \in DOMAIN optimized |->
                          IF k = key THEN color ELSE optimized[k]]
                 ELSE optimized
         IN ParsePairs_unchecked(pairs, i + 1,
                                 Taken(pairs[i].key, str_of(pairs[i].value)),
                                 original_colors)

\* The loop over parsed_dict.items() from item i on
RECURSIVE ParsePairs(_, _, _, _)
ParsePairs(pairs, i, optimized, original_colors) ==
    IF i > Len(pairs) THEN optimized
    ELSE LET Taken(key, color) ==
                 IF key \in DOMAIN original_colors /\ validate_hex_color(color)
                 THEN [k \in DOMAIN optimized |->
                          IF k = key THEN color ELSE optimized[k]]
                 ELSE optimized
         IN ParsePairs(pairs, i + 1,
                       Taken(pairs[i].key, str_of(pairs[i].value)),
                       original_colors)

\* _parse_color_suggestions of vscode_theme_generator.  ai_response.braces is
\* what re.search(r'\{[^}]*\}') and ast.literal_eval make of the reply: no
\* match, a dict (pairs), another literal, ValueError or SyntaxError (then the
\* lines are searched), or TypeError for an unhashable key, which is not caught
parse_color_suggestions(ai_response, original_colors) ==
    CASE ai_response.braces = "dict" ->
            [exc |-> "none",
             val |-> ParsePairs(ai_response.pairs, 1, original_colors, original_colors)]
      [] ai_response.braces = "invalid" ->
            [exc |-> "none",
             val |-> ParseLines(ai_response.lines, 1, original_colors, original_colors)]
      [] ai_response.braces = "unhashable" ->
            [exc |-> "TypeError", val |-> original_colors]
      [] OTHER -> [exc |-> "none", val |-> original_colors]

\* _parse_color_suggestions of theme-builder: the lines only
parse_color_suggestions_lines(ai_response, original_colors) ==
    ParseLines(ai_response.lines, 1, original_colors, original_colors)

\* _optimize_colors(colors) when ai_manager.chat answers with ai_response: a
\* reply that is raised, None or '' and a failure of the parsing give colors
optimize_colors(ai_response, colors_arg) ==
    LET Parsed(p) == IF p.exc # "none" THEN colors_arg ELSE p.val
    IN IF ai_response.kind # "text" THEN colors_arg
       ELSE Parsed(parse_color_suggestions(ai_response, colors_arg))

(***************************************************************************)
(* AIEnhancer.enhance_theme                                                *)
(***************************************************************************)
\* replies of ai_manager.chat('optimize_theme_colors', ...)
NoReply == [kind |-> "none", braces |-> "absent", pairs |-> <<>>, lines |-> <<>>]
AIReplies ==
    { NoReply,
      [NoReply EXCEPT !.kind = "raise"],
      [NoReply EXCEPT !.kind = "empty"],
      [NoReply EXCEPT !.kind = "text", !.braces = "dict",
          !.pairs = << [key |-> "editor.foreground",
                        value |-> PyStr(<<"#", "7", "0", "7", "0", "7", "0">>)],
                       [key |-> "editor.background",
                        value |-> PyStr(<<"r", "e", "d">>)],
                       [key |-> "terminal.background",
                        value |-> PyStr(<<"#", "0", "0", "0", "0", "0", "0">>)],
                       [key |-> "focusBorder", value |-> PyInt(123456)] >>],
      [NoReply EXCEPT !.kind = "text", !.braces = "dict",
          !.pairs = << [key |-> "editor.foreground",
                        value |-> PyStr(<<"#", "F", "F", "F", "F", "F", "F", "8", "0">>)],
                       [key |-> "editor.background",
                        value |-> PyStr(<<"#", "1", "2", "3", "4", "5", "6", "\n">>)] >>],
      [NoReply EXCEPT !.kind = "text", !.braces = "invalid",
          !.lines = << [key |-> "editor.background",
                        rest |-> <<" ", "#", "1", "2", "3", "4", "5", "6", "7", "8", "9">>],
                       [key |-> "editor.foreground",
                        rest |-> <<"#", "a", "b", "c", "d", "e", "g", "1", "2">>],
                       [key |-> "foo",
                        rest |-> <<" ", "#", "0", "0", "0", "0", "0", "0">>],
                       [key |-> "editor.foreground",
                        rest |-> <<" ", "#", "1", "2", "3", "4", "5", "6", "7">>] >>],
      [NoReply EXCEPT !.kind = "text",
          !.lines = << [key |-> "editor.background",
                        rest |-> <<" ", "#", "0", "0", "0", "0", "0", "0">>] >>],
      [NoReply EXCEPT !.kind = "text", !.braces = "other"],
      [NoReply EXCEPT !.kind = "text", !.braces = "unhashable"] }

\* theme data handed to enhance_theme: its colors (when it has any) and
\* whether it has token_colors
EnhanceThemes ==
    { [has_colors |-> FALSE, colors |-> <<>>, has_tokens |-> FALSE],
      [has_colors |-> TRUE, has_tokens |-> TRUE,
       colors |-> [k \in {"editor.background", "editor.foreground"} |->
                     IF k = "editor.background" THEN <<"#", "1", "e", "1", "e", "1", "e">>
                     ELSE <<"#", "8", "0", "8", "0", "8", "0">>]],
      [has_colors |-> TRUE, has_tokens |-> FALSE,
       colors |-> [k \in {"editor.background", "editor.foreground", "focusBorder"} |->
                     CASE k = "editor.background" -> <<"#", "1", "e", "1", "e", "1", "e">>
                       [] k = "editor.foreground" -> <<"#", "F", "F", "F", "F", "F", "F">>
                       [] k = "focusBorder" -> <<"#", "1", "2", "3", "4", "5">>]] }

\* theme_data['ai_enhance']: absent (every get gives its default), or one
\* setting given the other value
DefaultSettings ==
    [enhance_description |-> TRUE, optimize_colors |-> TRUE,
     generate_token_colors |-> TRUE, contrast_check |-> TRUE,
     generate_variants |-> FALSE]
EnhanceSettings ==
    {DefaultSettings} \cup
    {[DefaultSettings EXCEPT ![f] = ~DefaultSettings[f]] : f \in DOMAIN DefaultSettings}

NoEnhance ==
    [pc |-> "idle", ai |-> FALSE, settings |-> DefaultSettings, reply |-> NoReply,
     theme |-> [has_colors |-> FALSE, colors |-> <<>>, has_tokens |-> FALSE],
     has_colors |-> FALSE, colors |-> <<>>,
     description |-> "original", tokens |-> "original", variants |-> FALSE,
     optimized |-> [done |-> FALSE, val |-> <<>>],
     parsed |-> [done |-> FALSE, exc |-> "none", val |-> <<>>, lines_val |-> <<>>],
     wrote |-> <<>>, result |-> "none"]

InitIdleEnhance == enhance = NoEnhance

\* an AIEnhancer with or without ai_manager, the theme it is handed and the
\* reply the AI will give
InitEnhance ==
    \E ai \in BOOLEAN, theme \in EnhanceThemes, settings \in EnhanceSettings,
       reply \in AIReplies :
        enhance = [NoEnhance EXCEPT !.pc = "called", !.ai = ai, !.theme = theme,
                                    !.settings = settings, !.reply = reply,
                                    !.has_colors = theme.has_colors,
                                    !.colors = theme.colors]

\* theme_data['colors'] = self._optimize_colors(original_colors), with what
\* _parse_color_suggestions of either package returned on the way
OptimizeStep(e) ==
    LET Parsed(p) ==
            IF e.reply.kind # "text" THEN e.parsed
            ELSE [done |-> TRUE, exc |-> p.exc, val |-> p.val,
                  lines_val |-> parse_color_suggestions_lines(e.reply, e.colors)]
        Optimized(colors_out) ==
            [e EXCEPT !.has_colors = TRUE, !.colors = colors_out,
                      !.optimized = [done |-> TRUE, val |-> colors_out],
                      !.parsed = Parsed(parse_color_suggestions(e.reply, e.colors)),
                      !.wrote = Append(@, "optimize"), !.pc = "tokens"]
    IN Optimized(optimize_colors(e.reply, e.colors))

\* the contrast check run on the colors the theme came with
ContrastStep_on_original(e) ==
    LET Checked(r) ==
            IF r.exc # "none" THEN [e EXCEPT !.pc = "raised"]
            ELSE [e EXCEPT !.has_colors = TRUE, !.colors = r.val,
                           !.wrote = Append(@, "contrast"), !.pc = "variants"]
    IN Checked(check_and_fix_contrast(e.theme.colors))

\* theme_data['colors'] = self._check_and_fix_contrast(original_colors)
ContrastStep(e) ==
    LET Checked(r) ==
            IF r.exc # "none" THEN [e EXCEPT !.pc = "raised"]
            ELSE [e EXCEPT !.has_colors = TRUE, !.colors = r.val,
                           !.wrote = Append(@, "contrast"), !.pc = "variants"]
    IN Checked(check_and_fix_contrast(e.colors))

\* if not self.ai_manager: return theme_def
EnhanceStart ==
    /\ enhance.pc = "called"
    /\ enhance' = IF enhance.ai THEN [enhance EXCEPT !.pc = "description"]
                  ELSE [enhance EXCEPT !.pc = "returned", !.result = "same"]
    /\ UNCHANGED <<build, colorVars, contrastVars, validatorVars>>

\* _enhance_description gives the AI's text or, when the call fails or
\* answers nothing, the description it was handed
EnhanceDescription ==
    /\ enhance.pc = "description"
    /\ \E text \in {"original", "enhanced"} :
          enhance' = [enhance EXCEPT
                        !.description = IF enhance.settings.enhance_description
                                        THEN text ELSE @,
                        !.pc = "colors"]
    /\ UNCHANGED <<build, colorVars, contrastVars, validatorVars>>

EnhanceOptimizeColors ==
    /\ enhance.pc = "colors"
    /\ enhance' = IF enhance.settings.optimize_colors THEN OptimizeStep(enhance)
                  ELSE [enhance EXCEPT !.pc = "tokens"]
    /\ UNCHANGED <<build, colorVars, contrastVars, validatorVars>>

\* _generate_token_colors reads the colors and returns a list, its fallback
\* list when the AI fails
EnhanceTokenColors ==
    /\ enhance.pc = "tokens"
    /\ enhance' = [enhance EXCEPT
                     !.tokens = IF /\ enhance.settings.generate_token_colors
                                   /\ ~enhance.theme.has_tokens
                                THEN "generated" ELSE @,
                     !.pc = "contrast"]
    /\ UNCHANGED <<build, colorVars, contrastVars, validatorVars>>

EnhanceContrast ==
    /\ enhance.pc = "contrast"
    /\ enhance' = IF enhance.settings.contrast_check THEN ContrastStep(enhance)
                  ELSE [enhance EXCEPT !.pc = "variants"]
    /\ UNCHANGED <<build, colorVars, contrastVars, validatorVars>>

\* _generate_color_variants builds new maps from the colors, or raises in a
\* colour function; then return {'theme': theme_data}
EnhanceVariants ==
    /\ enhance.pc = "variants"
    /\ \E generated \in BOOLEAN :
          enhance' = IF ~enhance.settings.generate_variants
                     THEN [enhance EXCEPT !.pc = "returned", !.result = "wrapped"]
                     ELSE IF generated
                     THEN [enhance EXCEPT !.variants = TRUE, !.pc = "returned",
                                          !.result = "wrapped"]
                     ELSE [enhance EXCEPT !.pc = "raised"]
    /\ UNCHANGED <<build, colorVars, contrastVars, validatorVars>>

(***************************************************************************)
(* ThemeBuilder.build and _build_theme                                     *)
(***************************************************************************)
\* at most this many theme files in the themes directory
MaxThemes == 2

\* theme files: what yaml.safe_load gives for the file, or that it raises
GoodTheme ==
    PyDict([k \in {"name", "colors"} |->
        IF k = "name" THEN PyStr(<<"m", "y", "_", "t", "h", "e", "m", "e">>)
        ELSE ValidColors])
ThemeFiles ==
    { [loads |-> TRUE, def |-> GoodTheme],
      [loads |-> TRUE, def |-> One("theme", GoodTheme)],
      [loads |-> TRUE,
       def |-> PyDict([k \in {"name", "colors"} |->
                  IF k = "name" THEN PyStr(<<"B", "a", "d", " ", "N", "a", "m", "e", "!">>)
                  ELSE PyDict(<<>>)])],
      [loads |-> TRUE, def |-> One("name", PyInt(5))],
      [loads |-> FALSE, def |-> PyDict(<<>>)] }

\* the steps of _build_theme after validation, in the order of the code
BuildSteps ==
    << "structure", "enhance", "icon", "template", "package", "screenshots",
       "organize" >>
\* steps that run only if the arguments and the config enable them
OptionalSteps == {"enhance", "icon", "package", "screenshots"}
\* steps whose exceptions _build_theme catches where they are raised
GuardedSteps == {"icon", "screenshots"}

NoBuild ==
    [pc |-> "idle", themes |-> <<>>, enabled |-> {}, i |-> 0, step |-> 0,
     ran |-> <<>>, validator_errors |-> <<>>, built_themes |-> <<>>]

InitIdleBuild == build = NoBuild

\* the theme files build() finds, and the optional steps that are enabled
InitBuild ==
    \E n \in 0..MaxThemes :
        \E themes \in [1..n -> ThemeFiles],
           enabled \in {OptionalSteps, {}, {"enhance", "package"}} :
            build = [NoBuild EXCEPT !.pc = "called", !.themes = themes,
                                    !.enabled = enabled,
                                    !.ran = [j \in 1..n |-> <<>>]]

\* ThemeValidator.validate: is_valid, or what validate_with_errors raises
validate(self_errors, theme_def_arg) ==
    LET Verdict(r) == [exc |-> r.exc, valid |-> r.valid, self_errors |-> r.self_errors]
    IN Verdict(validate_with_errors(self_errors, theme_def_arg))

\* build(): what follows _build_theme for theme i: the name is appended when
\* it returned True, and the loop goes on with the next theme or returns
AfterTheme(b, success) ==
    [b EXCEPT !.built_themes = IF success THEN Append(@, b.i) ELSE @,
              !.i = IF b.i < Len(b.themes) THEN b.i + 1 ELSE b.i,
              !.step = 0,
              !.pc = IF b.i < Len(b.themes) THEN "load" ELSE "returned"]

\* step 1 of _build_theme going on to step 2 after a failed validation
LoadAndValidate_goes_on(b) ==
    LET Validated(v) ==
            IF v.exc # "none"
            THEN AfterTheme([b EXCEPT !.validator_errors = v.self_errors], FALSE)
            ELSE [b EXCEPT !.validator_errors = v.self_errors,
                           !.pc = "steps", !.step = 1]
    IN IF ~b.themes[b.i].loads THEN AfterTheme(b, FALSE)
       ELSE Validated(validate(b.validator_errors, b.themes[b.i].def))

\* step 1 of _build_theme: the file is loaded and validated; an exception of
\* either and a verdict of False end the theme with False
LoadAndValidate(b) ==
    LET Validated(v) ==
            IF v.exc # "none" \/ ~v.valid
            THEN AfterTheme([b EXCEPT !.validator_errors = v.self_errors], FALSE)
            ELSE [b EXCEPT !.validator_errors = v.self_errors,
                           !.pc = "steps", !.step = 1]
    IN IF ~b.themes[b.i].loads THEN AfterTheme(b, FALSE)
       ELSE Validated(validate(b.validator_errors, b.themes[b.i].def))

\* build() up to the loop: no themes, no build
BuildStart ==
    /\ build.pc = "called"
    /\ build' = IF build.themes = <<>> THEN [build EXCEPT !.pc = "returned"]
                ELSE [build EXCEPT !.pc = "load", !.i = 1]
    /\ UNCHANGED <<enhance, colorVars, contrastVars, validatorVars>>

BuildLoadAndValidate ==
    /\ build.pc = "load"
    /\ build' = LoadAndValidate(build)
    /\ UNCHANGED <<enhance, colorVars, contrastVars, validatorVars>>

\* One of steps 2 to 7 and the organising of the artifacts: it is skipped, it
\* runs, or it raises; an exception that is not caught at the step ends the
\* theme with False, and the last step ends it with True
BuildStep ==
    /\ build.pc = "steps"
    /\ \E raises \in BOOLEAN :
        LET name == BuildSteps[build.step]
            skipped == name \in OptionalSteps /\ name \notin build.enabled
            logged == IF skipped THEN build
                      ELSE [build EXCEPT !.ran[build.i] = Append(@, name)]
        IN build' = IF ~skipped /\ raises /\ name \notin GuardedSteps
                    THEN AfterTheme(logged, FALSE)
                    ELSE IF build.step = Len(BuildSteps)
                    THEN AfterTheme(logged, TRUE)
                    ELSE [logged EXCEPT !.step = @ + 1]
    /\ UNCHANGED <<enhance, colorVars, contrastVars, validatorVars>>

(***************************************************************************)
(* Specifications                                                          *)
(***************************************************************************)
\* colour functions applied to a str
NextColor ==
    \/ CallValidateHex
    \/ CallHexToRgb
    \/ CallGetLuminance
    \/ \E other \in ColorStrings : CallContrastRatio(other)
    \/ \E percent \in Percents : CallAdjustBrightness(percent)
    \/ CallComplementary
InitSpecColor ==
    InitColor /\ InitIdleContrast /\ InitIdleValidator
    /\ InitIdleEnhance /\ InitIdleBuild
SpecColor == InitSpecColor /\ [][NextColor]_vars

\* contrast repair of a colour map
NextContrast ==
    \/ \E i \in DOMAIN ContrastKeys, value \in ContrastValues : SetColor(i, value)
    \/ CheckAndFixContrast
    \/ CheckAndFixContrastAgain
InitSpecContrast ==
    InitIdleColor /\ InitIdleContrast /\ InitIdleValidator
    /\ InitIdleEnhance /\ InitIdleBuild
SpecContrast == InitSpecContrast /\ [][NextContrast]_vars

\* the brightness scan called directly
NextAdjust == AdjustForContrast
InitSpecAdjust ==
    InitIdleColor /\ InitAdjust /\ InitIdleValidator
    /\ InitIdleEnhance /\ InitIdleBuild
SpecAdjust == InitSpecAdjust /\ [][NextAdjust]_vars

\* a ThemeValidator instance and its caller
NextValidator ==
    \/ \E fv \in FieldOptions : SetField(fv[1], fv[2])
    \/ Validate
    \/ Fix
    \/ FixReturned
InitSpecValidator ==
    InitIdleColor /\ InitIdleContrast /\ InitValidator
    /\ InitIdleEnhance /\ InitIdleBuild
SpecValidator == InitSpecValidator /\ [][NextValidator]_vars

\* an enhance_theme call
NextEnhance ==
    \/ EnhanceStart
    \/ EnhanceDescription
    \/ EnhanceOptimizeColors
    \/ EnhanceTokenColors
    \/ EnhanceContrast
    \/ EnhanceVariants
InitSpecEnhance ==
    InitIdleColor /\ InitIdleContrast /\ InitIdleValidator
    /\ InitEnhance /\ InitIdleBuild
SpecEnhance == InitSpecEnhance /\ [][NextEnhance]_vars

\* a build() call
NextBuild ==
    \/ BuildStart
    \/ BuildLoadAndValidate
    \/ BuildStep
InitSpecBuild ==
    InitIdleColor /\ InitIdleContrast /\ InitIdleValidator
    /\ InitIdleEnhance /\ InitBuild
SpecBuild == InitSpecBuild /\ [][NextBuild]_vars

(***************************************************************************)
(* Claims about the validator (SpecValidator)                              *)
(***************************************************************************)
IsFixCall == returned.op \in {"fix", "refix"}

\* C1: fix_theme is idempotent by value: fix_theme applied to a copy of the
\* value fix_theme returned returns an equal value, colors map (with the
\* defaults the first pass filled in) and token_colors list included.
C1_FixIdempotent ==
    (returned.op = "refix" /\ returned.exc = "none") => returned.val = snapshot

\* theme data with a field of a wrong structural type: a non-string name or
\* version, colors that is no mapping, a scope list holding non-strings, a
\* non-string settings.foreground, a non-string author.email
TokenWrongType(token) ==
    /\ token.t = "dict"
    /\ \/ /\ Has(token, "scope") /\ token.v["scope"].t = "list"
          /\ \E i \in DOMAIN token.v["scope"].v : token.v["scope"].v[i].t # "str"
       \/ /\ Has(token, "settings") /\ token.v["settings"].t = "dict"
          /\ Has(token.v["settings"], "foreground")
          /\ token.v["settings"].v["foreground"].t # "str"
HasWrongType(td) ==
    \/ Has(td, "name") /\ td.v["name"].t # "str"
    \/ Has(td, "version") /\ td.v["version"].t # "str"
    \/ Has(td, "colors") /\ td.v["colors"].t # "dict"
    \/ /\ Has(td, "token_colors") /\ td.v["token_colors"].t = "list"
       /\ \E i \in DOMAIN td.v["token_colors"].v :
             TokenWrongType(td.v["token_colors"].v[i])
    \/ /\ Has(td, "author") /\ td.v["author"].t = "dict"
       /\ Has(td.v["author"], "email") /\ td.v["author"].v["email"].t # "str"

\* C2: validate_with_errors never raises on malformed input: for a theme
\* definition with a field of a wrong structural type it returns
\* (False, errors) with the defect among the errors.
C2_ValidateNeverRaises ==
    returned.op = "validate" =>
        /\ returned.exc = "none"
        /\ HasWrongType(ThemeData(snapshot)) =>
               (~returned.valid /\ returned.errors # <<>>)

\* C3: fix_theme never fails: for any theme definition it returns a corrected
\* structure and raises no exception.
C3_FixNeverFails ==
    IsFixCall => returned.exc = "none"

\* C4: fix_theme does not mutate its argument: when the call has returned, the
\* caller's theme definition has the value it had before the call.
C4_FixDoesNotMutate ==
    (IsFixCall /\ returned.exc = "none") => theme_def = snapshot

(***************************************************************************)
(* Claims about contrast repair (SpecContrast, SpecAdjust)                 *)
(***************************************************************************)
RowPresent(row) == row.bg \in DOMAIN colors /\ row.fg \in DOMAIN colors
RowChecked(row) ==
    /\ RowPresent(row)
    /\ validate_hex_color(colors[row.bg])
    /\ validate_hex_color(colors[row.fg])
Ratio(a, b) == calculate_contrast_ratio(a, b).val
RowRepaired(row) ==
    RowChecked(row) /\ contrast_out.colors[row.fg] # colors[row.fg]
RowUnrepairable(row) ==
    /\ RowChecked(row)
    /\ Ratio(colors[row.bg], colors[row.fg]) < row.min
    /\ contrast_out.colors[row.fg] = colors[row.fg]

\* C5: contrast repair is best-effort with a two-way outcome: for every row of
\* the table whose two keys are present with values passing validate_hex_color,
\* the returned map has a foreground that meets the row's minimum ratio against
\* the input background, or the input foreground; no error is raised.
C5_ContrastRepairTwoWay ==
    contrast_out.done =>
        /\ contrast_out.exc = "none"
        /\ \A i \in DOMAIN contrast_pairs :
              RowChecked(contrast_pairs[i]) =>
                  \/ Ratio(colors[contrast_pairs[i].bg],
                           contrast_out.colors[contrast_pairs[i].fg])
                         >= contrast_pairs[i].min
                  \/ contrast_out.colors[contrast_pairs[i].fg]
                         = colors[contrast_pairs[i].fg]
\* one row left as it was below its minimum and another row repaired
C5_Witness ==
    /\ contrast_out.done
    /\ \E i \in DOMAIN contrast_pairs : RowUnrepairable(contrast_pairs[i])
    /\ \E j \in DOMAIN contrast_pairs :
          /\ RowRepaired(contrast_pairs[j])
          /\ Ratio(colors[contrast_pairs[j].bg],
                   contrast_out.colors[contrast_pairs[j].fg]) >= contrast_pairs[j].min

\* the steps the claim names: 10, 20, ..., 90
ClaimSteps == {10 * k : k \in 1..9}
Candidate(percent) == adjust_brightness(adjust_call.fg, percent).str
Qualifies(percent) ==
    Ratio(adjust_call.bg, Candidate(percent)) >= adjust_call.target
QualifyingSteps == {k \in ClaimSteps : Qualifies(k) \/ Qualifies(-k)}
FirstStep == CHOOSE k \in QualifyingSteps : \A j \in QualifyingSteps : k <= j

\* C6: _adjust_for_contrast returns the first candidate in the order +10, -10,
\* +20, -20, ..., +90, -90 that meets the target: the smallest qualifying step
\* wins, at that step the brighter candidate wins over the darker one, and
\* with no qualifying step up to 90 the foreground is returned as it was (no
\* step of 100 or more is tried).
C6_ScanOrder ==
    adjust_call.done =>
        /\ adjust_call.exc = "none"
        /\ adjust_call.ret =
              IF QualifyingSteps = {} THEN adjust_call.fg
              ELSE IF Qualifies(FirstStep) THEN Candidate(FirstStep)
              ELSE Candidate(-FirstStep)
\* brighter and darker both qualify at the first qualifying step
C6_Witness ==
    /\ adjust_call.done
    /\ QualifyingSteps # {}
    /\ Qualifies(FirstStep) /\ Qualifies(-FirstStep)
    /\ Candidate(FirstStep) # Candidate(-FirstStep)
    /\ adjust_call.ret = Candidate(FirstStep)
\* no step up to 90 qualifies although the step of 100 would
C6_WitnessNoStep100 ==
    /\ adjust_call.done
    /\ QualifyingSteps = {}
    /\ Qualifies(-100)
    /\ adjust_call.ret = adjust_call.fg

ForegroundKeys == {contrast_pairs[i].fg : i \in DOMAIN contrast_pairs}

\* C7: _check_and_fix_contrast changes nothing but foreground entries of the
\* table: the output has exactly the keys of the input, and every key that is
\* no foreground key of the table (every background key included) keeps its
\* value.
C7_OnlyForegroundChanges ==
    contrast_out.done =>
        /\ DOMAIN contrast_out.colors = DOMAIN colors
        /\ \A k \in DOMAIN colors :
              k \notin ForegroundKeys => contrast_out.colors[k] = colors[k]
\* a foreground was changed in a map that also holds a key outside the table
C7_Witness ==
    /\ contrast_out.done
    /\ "focusBorder" \in DOMAIN colors
    /\ \E i \in DOMAIN contrast_pairs : RowRepaired(contrast_pairs[i])

\* the minimum ratio the claim gives for a row, in thousandths
ClaimMinRatio(row) ==
    IF row.bg \in {"editor.background", "terminal.background"} THEN 7000 ELSE 4500
\* what a checked row comes to, from its own two values and its minimum
RowOutcome(bg_color, fg_color, min_ratio) ==
    IF Ratio(bg_color, fg_color) < min_ratio
    THEN adjust_for_contrast(bg_color, fg_color, min_ratio).str
    ELSE fg_color

\* C8: the nine rows are processed independently and without short-circuit: a
\* row with a missing key or a value failing validate_hex_color is skipped
\* with its entries unchanged, and every other row comes to the outcome its
\* own two input values and its minimum (7.0 editor and terminal, 4.5 others)
\* give, whatever happened to the rows before it.
C8_RowsIndependent ==
    contrast_out.done =>
        /\ Len(contrast_pairs) = 9
        /\ \A i \in DOMAIN contrast_pairs :
              LET row == contrast_pairs[i]
              IN IF RowChecked(row)
                 THEN contrast_out.colors[row.fg] =
                          RowOutcome(colors[row.bg], colors[row.fg], ClaimMinRatio(row))
                 ELSE \A k \in {row.bg, row.fg} \cap DOMAIN colors :
                          contrast_out.colors[k] = colors[k]
\* an unrepairable row, then a row with no entries, then a repaired row
C8_Witness ==
    /\ contrast_out.done
    /\ \E i, j, k \in DOMAIN contrast_pairs :
          /\ i < j /\ j < k
          /\ RowUnrepairable(contrast_pairs[i])
          /\ ~RowPresent(contrast_pairs[j])
          /\ RowRepaired(contrast_pairs[k])

(***************************************************************************)
(* Claims about the colour functions (SpecColor)                           *)
(***************************************************************************)
\* '#' followed by exactly 6 or exactly 8 hex digits and nothing else
ExactHexColor(s) ==
    /\ Len(s) \in {7, 9}
    /\ s[1] = "#"
    /\ \A i \in 2..Len(s) : s[i] \in HexDigitSet

\* C9: validate_hex_color(s) is true if and only if s is exactly '#' followed
\* by exactly 6 or exactly 8 hex digits; any extra character before or after
\* the colour, a trailing line break included, is rejected.
C9_ValidateHexExact ==
    color_call.fn = "validate_hex_color" =>
        (color_call.ok <=> ExactHexColor(color_in))

ParsingFunctions ==
    {"hex_to_rgb", "get_luminance", "calculate_contrast_ratio",
     "adjust_brightness", "get_complementary_color"}

\* C10: hex_to_rgb and every function that parses its argument through it
\* signal an error for every string that fails validate_hex_color and never
\* return a colour or a number for it.
C10_FailFastOnInvalid ==
    (color_call.fn \in ParsingFunctions /\ ~validate_hex_color(color_in))
        => color_call.exc # "none"

\* C11: adjust_brightness(c, 0) returns exactly the string c for every c that
\* passes validate_hex_color, 6 or 8 digits, lower or upper case.
C11_ZeroPercentIdentity ==
    (/\ color_call.fn = "adjust_brightness"
     /\ color_call.percent = 0
     /\ validate_hex_color(color_in))
        => (color_call.exc = "none" /\ color_call.str = color_in)

\* n is an integer nearest to x100 / 100
NearestTo(x100, n) ==
    /\ 2 * (100 * n - x100) <= 100
    /\ 2 * (x100 - 100 * n) <= 100
Clamped(n) == IF n < 0 THEN 0 ELSE IF n > 255 THEN 255 ELSE n

\* C12: for every valid colour and percent in -100..100 each channel of
\* adjust_brightness(color, percent) is the channel times (1 + percent/100),
\* rounded to the nearest integer and clamped to 0..255, and the result is a
\* valid 6-digit colour.
C12_RoundedAndClamped ==
    (color_call.fn = "adjust_brightness" /\ validate_hex_color(color_in))
        => /\ color_call.exc = "none"
           /\ Len(color_call.str) = 7
           /\ validate_hex_color(color_call.str)
           /\ \A i \in 1..3 :
                 \E n \in 0..510 :
                    /\ NearestTo(hex_to_rgb(color_in).rgb[i]
                                     * (100 + color_call.percent), n)
                    /\ hex_to_rgb(color_call.str).rgb[i] = Clamped(n)

\* C13: calculate_contrast_ratio is symmetric: for valid colours a and b the
\* ratio of (a, b) is the ratio of (b, a), and it is at least 1.
C13_ContrastSymmetric ==
    (/\ color_call.fn = "calculate_contrast_ratio"
     /\ validate_hex_color(color_in)
     /\ validate_hex_color(color_call.other))
        => /\ color_call.exc = "none"
           /\ color_call.num = calculate_contrast_ratio(color_call.other, color_in).val
           /\ color_call.num >= 1000
\* a darker first argument and a lighter second one, and the other way round
C13_Witness ==
    /\ color_call.fn = "calculate_contrast_ratio"
    /\ validate_hex_color(color_in)
    /\ validate_hex_color(color_call.other)
    /\ get_luminance(color_in).val < get_luminance(color_call.other).val
    /\ color_call.num > 1000

\* C14: hex/RGB conversion round-trips: for every valid colour c,
\* hex_to_rgb(rgb_to_hex(*hex_to_rgb(c))) = hex_to_rgb(c) with every channel
\* in 0..255, and for an 8-digit c hex_to_rgb(c) is hex_to_rgb of '#' and
\* its first 6 digits.
C14_HexRgbRoundTrip ==
    (color_call.fn = "hex_to_rgb" /\ validate_hex_color(color_in))
        => /\ color_call.exc = "none"
           /\ Len(color_call.rgb) = 3
           /\ \A i \in 1..3 : color_call.rgb[i] \in 0..255
           /\ hex_to_rgb(rgb_to_hex(color_call.rgb[1], color_call.rgb[2],
                                    color_call.rgb[3]))
                  = [exc |-> "none", rgb |-> color_call.rgb]
           /\ Len(color_in) >= 9 =>
                  color_call.rgb = hex_to_rgb(SubSeq(color_in, 1, 7)).rgb
\* an 8-digit colour with a channel below 16 and a non-zero alpha byte
C14_Witness ==
    /\ color_call.fn = "hex_to_rgb"
    /\ validate_hex_color(color_in)
    /\ Len(color_in) = 9
    /\ color_call.exc = "none"
    /\ \E i \in 1..3 : color_call.rgb[i] < 16
    /\ SubSeq(color_in, 8, 9) # <<"0", "0">>

(***************************************************************************)
(* Claims about the rules of validate (SpecValidator)                      *)
(***************************************************************************)
IsValidateCall == returned.op = "validate"
\* the theme data the last call was handed
Input == ThemeData(snapshot)
\* every field has the structural type the validator reads it with
TypedAsRead(td) ==
    /\ ~HasWrongType(td)
    /\ Has(td, "token_colors") => Sized(td.v["token_colors"])
ErrorsOf(kind) == {i \in DOMAIN returned.errors : returned.errors[i].kind = kind}
ErrorsAbout(kind, key) == {i \in ErrorsOf(kind) : returned.errors[i].key = key}
ErrorsAt(kinds, idx) ==
    {i \in DOMAIN returned.errors :
        returned.errors[i].kind \in kinds /\ returned.errors[i].idx = idx}

\* C15: validate reports exactly one missing-required-field error for each of
\* name and colors that is absent, exactly one name-format error when name is
\* present and does not match ^[a-z0-9\-_]+$, and no name error for a present
\* name that matches.
C15_RequiredFieldErrors ==
    (IsValidateCall /\ TypedAsRead(Input)) =>
        /\ returned.exc = "none"
        /\ \A field \in {"name", "colors"} :
              Cardinality(ErrorsAbout("missing_field", field))
                  = IF Has(Input, field) THEN 0 ELSE 1
        /\ Cardinality(ErrorsOf("missing_field") \cup ErrorsOf("name_format"))
              = Cardinality(ErrorsAbout("missing_field", "name"))
                + Cardinality(ErrorsAbout("missing_field", "colors"))
                + Cardinality(ErrorsAbout("name_format", "name"))
        /\ Cardinality(ErrorsAbout("name_format", "name"))
              = IF Has(Input, "name") /\ ~MatchName(Input.v["name"].v) THEN 1 ELSE 0
\* a name that does not match, and no colors
C15_Witness ==
    /\ IsValidateCall
    /\ TypedAsRead(Input)
    /\ Has(Input, "name") /\ ~MatchName(Input.v["name"].v)
    /\ ~Has(Input, "colors")
    /\ Cardinality(ErrorsOf("name_format")) = 1
    /\ Cardinality(ErrorsOf("missing_field")) = 1

MissingRequiredColors ==
    {k \in Range(REQUIRED_COLOR_KEYS) : k \notin DOMAIN Input.v["colors"].v}
ReportedMissingColors ==
    UNION {returned.errors[i].keys : i \in ErrorsOf("missing_colors")}
IsBadNameEmptyColors ==
    /\ Has(Input, "name")
    /\ Input.v["name"] = PyStr(<<"B", "a", "d", " ", "N", "a", "m", "e", "!">>)
    /\ Has(Input, "colors")
    /\ Input.v["colors"] = PyDict(<<>>)

\* C16: when colors is present validate reports every key of
\* REQUIRED_COLOR_KEYS that is absent from it, and the verdict is invalid
\* whenever one of the 8 required keys is missing; for name "Bad Name!" with an
\* empty colors map the result is invalid with the name-format violation and
\* all 8 required keys reported.
C16_MissingRequiredColors ==
    (IsValidateCall /\ TypedAsRead(Input) /\ Has(Input, "colors")) =>
        /\ returned.exc = "none"
        /\ ReportedMissingColors = MissingRequiredColors
        /\ MissingRequiredColors # {} => ~returned.valid
        /\ IsBadNameEmptyColors =>
              /\ ~returned.valid
              /\ ErrorsOf("name_format") # {}
              /\ Cardinality(ReportedMissingColors) = 8
\* name "Bad Name!" with an empty colors map has been validated
C16_Witness ==
    /\ IsValidateCall
    /\ IsBadNameEmptyColors
    /\ returned.exc = "none"
    /\ Cardinality(ReportedMissingColors) = 8
\* some but not all required keys are missing
C16_WitnessSomeMissing ==
    /\ IsValidateCall
    /\ TypedAsRead(Input) /\ Has(Input, "colors")
    /\ Cardinality(MissingRequiredColors) \in 2..7

NotAString(key) == Input.v["colors"].v[key].t # "str"
BadFormat(key) ==
    /\ Input.v["colors"].v[key].t = "str"
    /\ ~validate_hex_color(Input.v["colors"].v[key].v)

\* C17: for every entry of the colors map validate reports one error if the
\* value is no string (type) and one if it is a string failing
\* validate_hex_color (format), never both; the number of colour-value errors
\* is the number of offending entries, entries after an offending one included.
C17_ColorValueErrors ==
    (IsValidateCall /\ TypedAsRead(Input) /\ Has(Input, "colors")) =>
        /\ returned.exc = "none"
        /\ \A key \in DOMAIN Input.v["colors"].v :
              /\ Cardinality(ErrorsAbout("color_type", key))
                    = IF NotAString(key) THEN 1 ELSE 0
              /\ Cardinality(ErrorsAbout("color_format", key))
                    = IF BadFormat(key) THEN 1 ELSE 0
        /\ Cardinality(ErrorsOf("color_type") \cup ErrorsOf("color_format"))
              = Cardinality({key \in DOMAIN Input.v["colors"].v :
                                NotAString(key) \/ BadFormat(key)})
\* a colors map with a non-string value and two values of a bad format
C17_Witness ==
    /\ IsValidateCall
    /\ TypedAsRead(Input) /\ Has(Input, "colors")
    /\ \E k1, k2, k3 \in DOMAIN Input.v["colors"].v :
          /\ NotAString(k1) /\ BadFormat(k2) /\ BadFormat(k3) /\ k2 # k3
    /\ Cardinality(ErrorsOf("color_type")) = 1
    /\ Cardinality(ErrorsOf("color_format")) >= 2

\* a token entry with no non-empty scope: missing, empty or of an invalid type
NoNonEmptyScope(token) ==
    \/ ~Has(token, "scope")
    \/ token.v["scope"].t \notin {"str", "list"}
    \/ ~Truthy(token.v["scope"])
NoSettingsMapping(token) ==
    ~Has(token, "settings") \/ token.v["settings"].t # "dict"
BadForeground(token) ==
    /\ ~NoSettingsMapping(token)
    /\ Has(token.v["settings"], "foreground")
    /\ token.v["settings"].v["foreground"].t = "str"
    /\ ~validate_hex_color(token.v["settings"].v["foreground"].v)

\* C18: for token_colors given as a list validate reports an error carrying the
\* entry's index for each entry that is no mapping, has no non-empty scope
\* (missing, empty or of an invalid type), has no settings mapping or has a
\* settings.foreground failing validate_hex_color, and any such entry makes the
\* verdict invalid; a token_colors that is no list yields one error.
C18_TokenErrors ==
    (IsValidateCall /\ TypedAsRead(Input) /\ Has(Input, "token_colors")) =>
        /\ returned.exc = "none"
        /\ IF Input.v["token_colors"].t # "list"
           THEN Cardinality(ErrorsOf("tokens_not_list")) = 1
           ELSE \A i \in DOMAIN Input.v["token_colors"].v :
                   LET token == Input.v["token_colors"].v[i]
                   IN IF token.t # "dict"
                      THEN ErrorsAt({"token_not_dict"}, i - 1) # {} /\ ~returned.valid
                      ELSE /\ NoNonEmptyScope(token) =>
                                 /\ ErrorsAt({"token_missing_scope"}, i - 1) # {}
                                 /\ ~returned.valid
                           /\ NoSettingsMapping(token) =>
                                 /\ ErrorsAt({"token_missing_settings",
                                              "token_settings_not_dict"}, i - 1) # {}
                                 /\ ~returned.valid
                           /\ BadForeground(token) =>
                                 /\ ErrorsAt({"token_foreground"}, i - 1) # {}
                                 /\ ~returned.valid

\* C19: a ThemeValidator carries no errors from one call to the next: the
\* errors the latest validate call returned are the errors a new instance
\* returns for that call's input, valid is (number of errors = 0), and the
\* list the call before returned holds what it held when it was returned.
C19_NoErrorsCarriedOver ==
    (IsValidateCall /\ returned.exc = "none") =>
        /\ returned.errors = validate_with_errors(<<>>, snapshot).errors
        /\ returned.valid = (Len(returned.errors) = 0)
        /\ errors = returned.errors
        /\ earlier_list.has => earlier_list.now = earlier_list.was
\* a second validate call on an instance whose first call returned errors
C19_Witness ==
    /\ IsValidateCall
    /\ returned.exc = "none"
    /\ calls >= 2
    /\ earlier_list.has
    /\ earlier_list.was # <<>>
    /\ returned.errors # <<>>
\* the call before returned errors for another input, the latest call none
C19_WitnessOtherInput ==
    /\ IsValidateCall
    /\ returned.exc = "none"
    /\ earlier_list.has
    /\ earlier_list.was # <<>>
    /\ returned.errors = <<>>

\* '#' followed by 6 or 8 characters
HashAndSixOrEight(value) ==
    /\ value.t = "str"
    /\ Len(value.v) \in {7, 9}
    /\ value.v[1] = "#"

\* C20: _fix_colors passes every value made of '#' and 6 or 8 characters
\* through unchanged: the output value under the same key is the input string.
C20_HexValuesPassThrough ==
    (/\ IsFixCall
     /\ returned.exc = "none"
     /\ Has(Input, "colors")
     /\ Input.v["colors"].t = "dict")
        => \A key \in DOMAIN Input.v["colors"].v :
              HashAndSixOrEight(Input.v["colors"].v[key]) =>
                  /\ key \in DOMAIN ThemeData(returned.val).v["colors"].v
                  /\ ThemeData(returned.val).v["colors"].v[key]
                         = Input.v["colors"].v[key]

(***************************************************************************)
(* Claims about the repairs of fix_theme (SpecValidator)                   *)
(***************************************************************************)
\* a fix_theme call that returned, on theme data whose colors is a map
IsFixOfColorsMap ==
    /\ IsFixCall
    /\ returned.exc = "none"
    /\ Has(Input, "colors")
    /\ Input.v["colors"].t = "dict"
InputColors == Input.v["colors"].v
FixedColors == ThemeData(returned.val).v["colors"].v
\* abc becomes aabbcc
Doubled(s) == [i \in 1..(2 * Len(s)) |-> s[(i + 1) \div 2]]
HashAndThreeHex(value) ==
    /\ value.t = "str"
    /\ Len(value.v) = 4
    /\ value.v[1] = "#"
    /\ \A i \in 2..4 : IsHexDigit(value.v[i])
SixHexNoHash(value) ==
    /\ value.t = "str"
    /\ Len(value.v) = 6
    /\ \A i \in 1..6 : IsHexDigit(value.v[i])

\* C21: _fix_colors replaces a value '#' + 3 hex digits by '#' + the 6 digits
\* obtained by doubling each digit in order, and a value of exactly 6 hex
\* digits without '#' by the same digits prefixed with '#'.
C21_ShortFormsRepaired ==
    IsFixOfColorsMap =>
        \A key \in DOMAIN InputColors :
            /\ HashAndThreeHex(InputColors[key]) =>
                  /\ key \in DOMAIN FixedColors
                  /\ FixedColors[key]
                        = PyStr(<<"#">> \o Doubled(Tail(InputColors[key].v)))
            /\ SixHexNoHash(InputColors[key]) =>
                  /\ key \in DOMAIN FixedColors
                  /\ FixedColors[key] = PyStr(<<"#">> \o InputColors[key].v)

\* a value the claim lists as one _fix_colors cannot repair
Unrepairable(value) ==
    \/ value.t # "str"
    \/ /\ value.t = "str"
       /\ value.v # <<>> /\ value.v[1] = "#"
       /\ Len(value.v) - 1 \notin {3, 6, 8}
    \/ /\ value.t = "str"
       /\ value.v = <<>> \/ value.v[1] # "#"
       /\ ~SixHexNoHash(value)
\* the fixed per-key defaults the claims name
ClaimDefault(key) ==
    CASE key = "editor.background" -> PyStr(<<"#", "1", "e", "1", "e", "1", "e">>)
      [] key = "editor.foreground" -> PyStr(<<"#", "d", "4", "d", "4", "d", "4">>)
      [] key = "activityBar.background" -> PyStr(<<"#", "3", "3", "3", "3", "3", "3">>)
      [] key = "activityBar.foreground" -> PyStr(<<"#", "f", "f", "f", "f", "f", "f">>)
      [] key = "sideBar.background" -> PyStr(<<"#", "2", "5", "2", "5", "2", "6">>)
      [] key = "sideBar.foreground" -> PyStr(<<"#", "c", "c", "c", "c", "c", "c">>)
      [] key = "statusBar.background" -> PyStr(<<"#", "0", "0", "7", "a", "c", "c">>)
      [] key = "statusBar.foreground" -> PyStr(<<"#", "f", "f", "f", "f", "f", "f">>)

\* C22: _fix_colors drops every entry it cannot repair ('#' and a remainder of
\* a length other than 3, 6 or 8, a string without '#' that is not exactly 6
\* hex digits, a non-string): a non-required key with such a value is absent
\* from the output and a required key reappears only with its default.
C22_UnrepairableDropped ==
    IsFixOfColorsMap =>
        \A key \in DOMAIN InputColors :
            Unrepairable(InputColors[key]) =>
                IF key \in Range(REQUIRED_COLOR_KEYS)
                THEN /\ key \in DOMAIN FixedColors
                     /\ FixedColors[key] = ClaimDefault(key)
                ELSE key \notin DOMAIN FixedColors

\* the loop of _fix_colors wrote no value for the entry
Dropped(value) == ~FixColorValue(value).keep
\* fixed is '#' and the digits of value, doubled when there are 3, in either case
RepairedFrom(value, fixed) ==
    /\ fixed.t = "str"
    /\ fixed.v # <<>> /\ fixed.v[1] = "#"
    /\ upper(Tail(fixed.v))
          = upper(IF value.v[1] # "#" THEN value.v
                  ELSE IF Len(value.v) = 4 THEN Doubled(Tail(value.v))
                  ELSE Tail(value.v))

\* C23: after fix_theme the colors map holds all 8 REQUIRED_COLOR_KEYS, also
\* when the input had no colors; a required key that was absent or whose value
\* was dropped holds its per-key default, and a required key with a repairable
\* value holds the repaired value, not the default.
C23_RequiredKeysFilled ==
    (/\ IsFixCall
     /\ returned.exc = "none"
     /\ Has(Input, "colors") => Input.v["colors"].t = "dict") =>
        /\ Has(ThemeData(returned.val), "colors")
        /\ ThemeData(returned.val).v["colors"].t = "dict"
        /\ \A key \in Range(REQUIRED_COLOR_KEYS) :
              /\ key \in DOMAIN FixedColors
              /\ IF \/ ~Has(Input, "colors")
                    \/ key \notin DOMAIN InputColors
                    \/ Dropped(InputColors[key])
                 THEN FixedColors[key] = ClaimDefault(key)
                 ELSE RepairedFrom(InputColors[key], FixedColors[key])
\* a colors map with a required key absent, one dropped and one repaired to a
\* value that is not its default
C23_Witness ==
    /\ IsFixOfColorsMap
    /\ \E k1, k2, k3 \in Range(REQUIRED_COLOR_KEYS) :
          /\ k1 \notin DOMAIN InputColors
          /\ k2 \in DOMAIN InputColors /\ Dropped(InputColors[k2])
          /\ k3 \in DOMAIN InputColors /\ ~Dropped(InputColors[k3])
          /\ FixedColors[k3] # ClaimDefault(k3)
          /\ FixedColors[k3] # InputColors[k3]
\* fix_theme on theme data without colors
C23_WitnessNoColors ==
    /\ IsFixCall
    /\ returned.exc = "none"
    /\ ~Has(Input, "colors")
    /\ DOMAIN FixedColors = Range(REQUIRED_COLOR_KEYS)

FixedTokens == ThemeData(returned.val).v["token_colors"]
InputTokens == Input.v["token_colors"]
TokenKept(token) ==
    /\ token.t = "dict"
    /\ Has(token, "scope")
    /\ token.v["scope"].t = "list"
    /\ token.v["scope"].v # <<>>
    /\ Has(token, "settings")
    /\ token.v["settings"].t = "dict"
    /\ DOMAIN token.v["settings"].v # {}
    /\ DOMAIN token.v["settings"].v \subseteq {"foreground", "fontStyle", "background"}
    /\ Has(token.v["settings"], "foreground") =>
          /\ token.v["settings"].v["foreground"].t = "str"
          /\ validate_hex_color(token.v["settings"].v["foreground"].v)

\* C24: every entry of the token_colors list fix returns has a non-empty scope
\* sequence and a non-empty settings mapping with keys among foreground,
\* fontStyle and background, a foreground passing validate_hex_color; an input
\* entry that does not meet this is dropped, not replaced by a default.
C24_FixedTokensWellFormed ==
    (IsFixCall /\ returned.exc = "none" /\ Has(Input, "token_colors")) =>
        /\ Has(ThemeData(returned.val), "token_colors")
        /\ FixedTokens.t = "list"
        /\ \A i \in DOMAIN FixedTokens.v : TokenKept(FixedTokens.v[i])
        /\ Len(FixedTokens.v)
              <= IF InputTokens.t = "list"
                 THEN Cardinality({i \in DOMAIN InputTokens.v :
                                     InputTokens.v[i].t = "dict"})
                 ELSE 0

\* the value of a field after the call: the input's, or the default
FilledWith(field, default) ==
    /\ Has(ThemeData(returned.val), field)
    /\ ThemeData(returned.val).v[field]
          = IF Has(Input, field) THEN Input.v[field] ELSE default

\* C25: fix_theme fills a missing name with "unnamed_theme", a missing
\* display_name with the title-cased name as it stands after the name default,
\* a missing description with "A custom VS Code theme" and a missing version
\* with "1.0.0", and leaves each of the four unchanged when it is present.
C25_MetadataDefaults ==
    IsFixCall =>
        /\ returned.exc = "none"
        /\ FilledWith("name", PyStr(StrUnnamedTheme))
        /\ ThemeData(returned.val).v["name"].t = "str" =>
              FilledWith("display_name",
                         PyStr(Title(ThemeData(returned.val).v["name"].v)))
        /\ FilledWith("description", PyStr(StrDefaultDescription))
        /\ FilledWith("version", PyStr(StrDefaultVersion))

\* C27: every value of the colors map fix_theme returns passes
\* validate_hex_color, for any input colors map with string values, so that
\* validating the output of fix reports no colour-format error.
C27_FixedColorsAreHex ==
    (IsFixOfColorsMap /\ \A key \in DOMAIN InputColors : InputColors[key].t = "str") =>
        /\ \A key \in DOMAIN FixedColors :
              /\ FixedColors[key].t = "str"
              /\ validate_hex_color(FixedColors[key].v)
        /\ {e \in Range(validate_with_errors(<<>>, returned.val).errors) :
               e.kind = "color_format"} = {}

(***************************************************************************)
(* Claims about repeated contrast repair (SpecContrast)                    *)
(***************************************************************************)
\* C28: _check_and_fix_contrast is idempotent: applied to the map it returned
\* it returns that map unchanged.
C28_ContrastRepairIdempotent ==
    contrast_out.again.done =>
        /\ contrast_out.again.exc = "none"
        /\ contrast_out.again.colors = contrast_out.colors
\* the second call was handed a map in which the first call had repaired a row
C28_Witness ==
    /\ contrast_out.again.done
    /\ contrast_out.colors # colors
    /\ \E i \in DOMAIN contrast_pairs : RowRepaired(contrast_pairs[i])
\* the second call was handed a map with a row the first call could not repair
C28_WitnessUnrepairable ==
    /\ contrast_out.again.done
    /\ \E i \in DOMAIN contrast_pairs : RowUnrepairable(contrast_pairs[i])

(***************************************************************************)
(* Claims about AI colour suggestions (SpecEnhance)                        *)
(***************************************************************************)
\* the colors _optimize_colors was called with
OriginalColors == enhance.theme.colors
\* the values the reply suggests for key: str() of the values of the dict the
\* reply holds, or the colours of the lines that name the key
SuggestedPairs(key) ==
    {str_of(enhance.reply.pairs[i].value) :
        i \in {j \in DOMAIN enhance.reply.pairs : enhance.reply.pairs[j].key = key}}
SuggestedLines(key) ==
    {MatchSuggestionLine(enhance.reply.lines[i].rest).color :
        i \in {j \in DOMAIN enhance.reply.lines :
                  /\ enhance.reply.lines[j].key = key
                  /\ MatchSuggestionLine(enhance.reply.lines[j].rest).found}}
\* a map with the keys of the original colors whose values are the original
\* ones or suggested ones that pass validate_hex_color
WellFormedChoice(result, Suggested(_)) ==
    /\ DOMAIN result = DOMAIN OriginalColors
    /\ \A key \in DOMAIN result :
          \/ result[key] = OriginalColors[key]
          \/ /\ result[key] \in Suggested(key)
             /\ validate_hex_color(result[key])

\* what the claim says of a map _parse_color_suggestions returned, with "passes
\* validateHex" read as the validate_hex_color of the code
AcceptedPassValidateHex ==
    /\ (enhance.parsed.done /\ enhance.parsed.exc = "none") =>
          WellFormedChoice(enhance.parsed.val,
                           LAMBDA key : SuggestedPairs(key) \cup SuggestedLines(key))
    /\ enhance.parsed.done =>
          WellFormedChoice(enhance.parsed.lines_val, SuggestedLines)
\* _optimize_colors keeps the key set, and returns the original colors when
\* the AI call fails or returns nothing
OptimizeFallsBack ==
    enhance.optimized.done =>
        /\ DOMAIN enhance.optimized.val = DOMAIN OriginalColors
        /\ enhance.reply.kind \in {"raise", "none", "empty"} =>
              enhance.optimized.val = OriginalColors
\* no value of the returned map is a suggestion that is not a hex colour
InvalidRejected(result) ==
    \A key \in DOMAIN result :
        result[key] # OriginalColors[key] => ExactHexColor(result[key])

\* C26: _parse_color_suggestions (of either package) returns a map with
\* exactly the keys of the original colors in which every value is the
\* original value or a suggested value that passes validateHex; a suggestion
\* for an unknown key and a suggestion that is not a valid hex colour are
\* rejected and the original value is kept; and _optimize_colors returns the
\* original colors when the AI call fails or returns nothing.
C26_SuggestionsWellFormed ==
    /\ AcceptedPassValidateHex
    /\ OptimizeFallsBack
    /\ (enhance.parsed.done /\ enhance.parsed.exc = "none") =>
          /\ InvalidRejected(enhance.parsed.val)
          /\ InvalidRejected(enhance.parsed.lines_val)
\* the claim but for the suggestions that are rejected
C26_ButInvalidRejected ==
    AcceptedPassValidateHex /\ OptimizeFallsBack
\* a reply whose valid suggestion for a key of the map was taken while its
\* invalid one and its one for an unknown key were rejected
C26_Witness ==
    /\ enhance.parsed.done /\ enhance.parsed.exc = "none"
    /\ \E key \in DOMAIN OriginalColors :
          /\ enhance.parsed.val[key] # OriginalColors[key]
          /\ enhance.parsed.val[key] \in SuggestedPairs(key)
    /\ \E key \in DOMAIN OriginalColors :
          /\ SuggestedPairs(key) # {}
          /\ \A c \in SuggestedPairs(key) : ~validate_hex_color(c)
          /\ enhance.parsed.val[key] = OriginalColors[key]
    /\ \E i \in DOMAIN enhance.reply.pairs :
          /\ enhance.reply.pairs[i].key \notin DOMAIN OriginalColors
          /\ validate_hex_color(str_of(enhance.reply.pairs[i].value))
\* the AI call failed and _optimize_colors gave back a non-empty map
C26_WitnessAIFails ==
    /\ enhance.optimized.done
    /\ enhance.reply.kind = "raise"
    /\ OriginalColors # <<>>
\* the line search took a suggestion and rejected others
C26_WitnessLines ==
    /\ enhance.parsed.done /\ enhance.reply.braces = "invalid"
    /\ enhance.parsed.val # OriginalColors
    /\ \E i \in DOMAIN enhance.reply.lines :
          enhance.reply.lines[i].key \notin DOMAIN OriginalColors

(***************************************************************************)
(* Claims about the order of the steps of enhance_theme (SpecEnhance)      *)
(***************************************************************************)
\* enhance_theme returned, called with an AI manager and no ai_enhance settings
ReturnedWithDefaults ==
    /\ enhance.pc = "returned"
    /\ enhance.ai
    /\ enhance.settings = DefaultSettings

\* C30: in enhance_theme with an AI manager and default settings the contrast
\* repair runs after the colour optimisation and is the last step that writes
\* the colors: the colors of the returned theme are _check_and_fix_contrast
\* of what _optimize_colors returned for the colors of the input; with no AI
\* manager enhance_theme returns the theme definition it was handed, unchanged.
C30_ContrastRepairIsLast ==
    /\ ReturnedWithDefaults =>
          /\ enhance.result = "wrapped"
          /\ enhance.wrote = <<"optimize", "contrast">>
          /\ enhance.optimized.done
          /\ enhance.optimized.val = optimize_colors(enhance.reply, enhance.theme.colors)
          /\ enhance.has_colors
          /\ enhance.colors = check_and_fix_contrast(enhance.optimized.val).val
    /\ (enhance.pc \in {"returned", "raised"} /\ ~enhance.ai) =>
          /\ enhance.pc = "returned"
          /\ enhance.result = "same"
          /\ enhance.wrote = <<>>
          /\ enhance.has_colors = enhance.theme.has_colors
          /\ enhance.colors = enhance.theme.colors
          /\ enhance.description = "original"
          /\ enhance.tokens = "original"
          /\ ~enhance.variants
\* the AI suggested a foreground that was taken, and the contrast repair then
\* changed it before the theme was returned
C30_Witness ==
    /\ ReturnedWithDefaults
    /\ "editor.foreground" \in DOMAIN enhance.theme.colors
    /\ enhance.optimized.val["editor.foreground"]
          # enhance.theme.colors["editor.foreground"]
    /\ enhance.colors["editor.foreground"]
          # enhance.optimized.val["editor.foreground"]
\* enhance_theme returned without an AI manager on a theme with colors
C30_WitnessNoManager ==
    /\ enhance.pc = "returned"
    /\ ~enhance.ai
    /\ enhance.theme.has_colors

(***************************************************************************)
(* Claims about validation in the build (SpecBuild)                        *)
(***************************************************************************)
\* validate(theme_def) is not True for theme j: the verdict is False or the
\* validator raises (the errors self holds do not change the verdict)
FailsValidation(j) ==
    /\ build.themes[j].loads
    /\ ~(/\ validate(<<>>, build.themes[j].def).exc = "none"
         /\ validate(<<>>, build.themes[j].def).valid)

\* C29: a theme definition that fails validation is never built: _build_theme
\* returns False before the output directory structure is created and before
\* AI enhancement, icon generation, templating, packaging, screenshots and the
\* organising of artifacts; build() does not list the theme among the built
\* themes, and still builds the remaining themes.
C29_ValidationGatesBuild ==
    /\ \A j \in DOMAIN build.themes :
          FailsValidation(j) =>
              /\ build.ran[j] = <<>>
              /\ \A n \in DOMAIN build.built_themes : build.built_themes[n] # j
              /\ ~(j = build.i /\ build.pc = "steps")
    /\ build.pc = "returned" =>
          \A j \in DOMAIN build.themes :
              \/ FailsValidation(j)
              \/ ~build.themes[j].loads
              \/ build.ran[j] # <<>>
\* build() returned: the first theme failed validation and was not built, the
\* second went through every step and is the one built theme
C29_Witness ==
    /\ build.pc = "returned"
    /\ Len(build.themes) = 2
    /\ FailsValidation(1)
    /\ validate(<<>>, build.themes[1].def).exc = "none"
    /\ build.ran[2] = BuildSteps
    /\ build.built_themes = <<2>>
\* the validator raised on the first theme and the second was still built
C29_WitnessValidatorRaises ==
    /\ build.pc = "returned"
    /\ Len(build.themes) = 2
    /\ build.themes[1].loads
    /\ validate(<<>>, build.themes[1].def).exc # "none"
    /\ build.built_themes = <<2>>

====
